---------------------------- MODULE Spec2Model ----------------------------
(***************************************************************************)
(* A model of daw::variant_t (src/include/daw/daw_variant.h), instantiated *)
(* as in the repository's test, variant_t<int, std::string, int*>, and of  *)
(* the older variant_t (src/daw_variant.h), daw::not_null, daw::expected_t *)
(* with bench_test, daw::validated, daw::value_ptr, daw::optional_heap and *)
(* parse_to_value for integral types.                                      *)
(*                                                                         *)
(* The specifications that share the module:                               *)
(*   Spec          one variant object from construction to destruction,    *)
(*                 with ghost counters of the payload constructions and    *)
(*                 destructions made in its storage;                       *)
(*   CmpSpec       three variant objects that are stored to and reset, and *)
(*                 whose every ordered pair is compared;                   *)
(*   OwnSpec       two variant objects that are copied and moved into one  *)
(*                 another, with the ghost identity of each payload;       *)
(*   StepSpec      one variant object, set_type taken statement by         *)
(*                 statement;                                              *)
(*   NotNullSpec   two daw::not_null<int *> objects;                       *)
(*   ExpectedSpec  the expected_t that bench_test and expected_from_code   *)
(*                 return;                                                 *)
(*   ValidatedSpec two daw::validated<int, Validator> objects;             *)
(*   RegSpec       two threads that look types up in the registry func_map;*)
(*   ValuePtrSpec  two daw::value_ptr<int> objects and the ints they       *)
(*                 allocate;                                               *)
(*   OptionalHeapSpec  three daw::optional_heap<int> objects and their     *)
(*                 comparisons;                                            *)
(*   ParseSpec     parse_to_value of one input string as int8_t and as     *)
(*                 uint8_t;                                                *)
(*   EquivSpec     a variant of the older and one of the newer header,     *)
(*                 given the same calls.                                   *)
(* Strings are sequences of character codes.                               *)
(***************************************************************************)
EXTENDS Integers, Sequences, FiniteSets

VARIABLES
    var,          \* the variant object of Spec
    in_scope,     \* whether var's lifetime has not ended
    constructed,  \* ghost: payloads constructed in var's storage
    destructed,   \* ghost: payload destructors run on var's storage
    last_call,    \* ghost: the last call that changed var
    result,       \* the outcome of the last get, or NoResult
    seen,         \* what the last const call on var returned, or NoSeen
    u,            \* the variant objects of CmpSpec
    cmp,          \* cmp[<<x, y>>]: the outcome of u[x].compare( u[y] )
    bare,         \* bare[<<x, y>>]: the outcome of u[x].compare( payload of u[y] )
    rel,          \* rel[<<x, y>>]: what u[x] == u[y], !=, <, >, <=, >= give
    rel_bare,     \* rel_bare[<<x, y>>]: the same against the payload of u[y]
    stdlib,       \* the C++ standard library of the build
    ov,           \* the variant objects of OwnSpec
    life,         \* life[x]: whether ov[x] is unborn, alive or dead
    obj,          \* ghost: obj[x] is the payload whose bytes ov[x]'s storage holds
    dtors,        \* ghost: dtors[i] is the number of destructor runs on payload i
    own_call,     \* ghost: the last copy or move between the variants of OwnSpec
    sv,           \* the variant object of StepSpec
    pc,           \* where the store( ) running on sv is in set_type
    pending,      \* the value that store( ) is storing, or NoObject
    step_out,     \* how the last store( ) on sv ended
    nn,           \* the daw::not_null<int *> objects of NotNullSpec
    nn_out,       \* the last call on them and its outcome
    ex,           \* the last call that made a daw::expected_t, and what it returned
    vd,           \* the daw::validated<int, Validator> objects of ValidatedSpec
    vd_out,       \* the last call on them and its outcome
    func_map,     \* the static func_map of get_helper_funcs, empty until it is built
    builds,       \* ghost: how many times get_variant_helpers has built func_map
    builder,      \* the thread that is initialising func_map, or "none"
    writes,       \* ghost: the insertions into func_map made after it was built
    tv,           \* tv[t]: the variant object that thread t works on
    tpc,          \* tpc[t]: where thread t is in get_helper_funcs
    todo,         \* todo[t]: the type indexes thread t has still to look up in its call
    looked,       \* looked[t]: the last lookup thread t finished
    vp,           \* daw::value_ptr<int> objects by name: alive and m_value
    heap,         \* every int allocated with new: value, deletes, released
    oh,           \* daw::optional_heap<int> objects by name: m_value
    oh_cmp,       \* the last pair compared and what the six operators returned
    pin,          \* the characters read so far, the string to parse
    pr,           \* the last parse_to_value call: type, string and outcome
    nv,           \* the variant of the newer header in EquivSpec
    old,          \* the variant of the older header, given the same calls
    obs           \* the last call made on both and what each returned

\* ------------------------------------------------------------------ bounds
\* The largest int stored, and how far below zero the ints go.
MaxInt == 10
MaxNeg == 1
\* The number of int objects on the heap that an int* can point to.
NumAddrs == 3
\* The number of payload constructions in one run of Spec.
MaxOps == 3
\* The longest string given to parse_to_value.
ParseMaxLen == 4

\* ------------------------------------------------------------ the type set
\* The member types of the closed type set.
Types == {"int", "string", "int*"}

\* stored_type_t::empty_type(): the type index of the local class no_type_t.
empty_type == "no_type_t"

\* get_type_index<T>(): the std::type_index of T.
get_type_index(T) == T

\* ------------------------------------------------------------------ values
\* A payload: an object of one member type.  The fields a type does not use
\* are zero.
IntV(n) == [type |-> "int", int |-> n, str |-> <<>>, ptr |-> 0]
StrV(s) == [type |-> "string", int |-> 0, str |-> s, ptr |-> 0]
PtrV(p) == [type |-> "int*", int |-> 0, str |-> <<>>, ptr |-> p]

\* The storage when no object lives in it: m_buffer{} at construction, and
\* after the payload's destructor has run.
NoObject == [type |-> "none", int |-> 0, str |-> <<>>, ptr |-> 0]

IntVals == (0 - MaxNeg)..MaxInt
\* "", "5", "10"
StrVals == {<<>>, <<53>>, <<49, 48>>}
\* Address 0 is the null pointer.
Addrs == 1..NumAddrs
PtrVals == 0..NumAddrs
\* The int each heap object holds: the object at address 1 holds 10, the
\* others hold 5.
Pointee(p) == IF p = 1 THEN 10 ELSE 5

ValuesOf(T) ==
    CASE T = "int" -> {IntV(n) : n \in IntVals}
      [] T = "string" -> {StrV(s) : s \in StrVals}
      [] T = "int*" -> {PtrV(p) : p \in PtrVals}

Values == UNION {ValuesOf(T) : T \in Types}

\* ------------------------------------------------------------- the variant
\* variant_t(): m_stored_type{} is the empty type, m_buffer{} is zeroed.
variant_t == [m_stored_type |-> empty_type, m_buffer |-> NoObject]

\* stored_type_t::empty / variant_t::empty.
empty(v) == v.m_stored_type = empty_type

\* variant_t::type_index.
type_index(v) == v.m_stored_type

\* variant_t::is_same_type<T>.
is_same_type(v, T) == v.m_stored_type = get_type_index(T)

\* reset_type that leaves the stored type as it is.
reset_type_keeps(v) == v

\* stored_type_t::reset / variant_t::reset_type.
reset_type(v) == [v EXCEPT !.m_stored_type = empty_type]

\* An outcome of a call that returns a payload or throws.
Ok(val) == [kind |-> "ok", val |-> val]
Throw(e) == [kind |-> e, val |-> NoObject]

\* ptr<T> without the check of the stored type.
ptr_no_type_check(v, T) ==
    IF empty(v) THEN Throw("bad_variant_t_access") ELSE Ok(v.m_buffer)

\* variant_t::ptr<T>: throws on an empty variant, throws on another type,
\* and otherwise gives the storage reinterpreted as T.
ptr(v, T) ==
    IF empty(v) THEN Throw("bad_variant_t_access")
    ELSE IF ~is_same_type(v, T) THEN Throw("bad_variant_t_access")
    ELSE Ok(v.m_buffer)

\* variant_t::get<T>: *ptr<T>( ).
get(v, T) == ptr(v, T)

\* get_variant_helpers / get_helper_funcs: func_map[idx].  The map holds one
\* entry per member type; operator[] on any other index gives a
\* default-constructed entry, whose three std::function members are empty.
get_helper_funcs(idx) ==
    IF idx \in Types
    THEN [to_string |-> idx, compare |-> idx, destruct |-> idx]
    ELSE [to_string |-> "null", compare |-> "null", destruct |-> "null"]

\* destruct_t<T>: runs ~T on the object get<T> finds in the storage.
destruct_t(T, v) ==
    IF get(v, T).kind = "ok" THEN [v EXCEPT !.m_buffer = NoObject] ELSE v

\* reset and ~variant_t without the check for an empty variant.
destructs_unguarded(v) == 1

\* The number of payload destructors variant_t::reset and ~variant_t run.
destructs(v) ==
    IF ~empty(v) /\ get_helper_funcs(type_index(v)).destruct # "null" THEN 1 ELSE 0

\* variant_t::reset: destructs the payload of a non-empty variant, then
\* clears the stored type.
reset(v) ==
    reset_type(IF ~empty(v)
               THEN destruct_t(get_helper_funcs(type_index(v)).destruct, v)
               ELSE v)

\* set_type without the placement new when T is already stored.
set_type_no_construct(v, T, value) ==
    IF is_same_type(v, T) THEN v
    ELSE [reset(v) EXCEPT !.m_stored_type = get_type_index(T), !.m_buffer = value]

\* variant_t::set_type(T &&value): resets unless T is already stored, sets
\* the stored type, placement-constructs the value in the storage.
set_type(v, T, value) ==
    LET w == IF ~is_same_type(v, T) THEN reset(v) ELSE v
    IN  [w EXCEPT !.m_stored_type = get_type_index(T), !.m_buffer = value]

\* The payload destructors set_type runs.
set_type_destructs(v, T) == IF ~is_same_type(v, T) THEN destructs(v) ELSE 0

\* variant_t::store: set_type<T>( value ).
store(v, T, value) == set_type(v, T, value)

\* --------------------------------------------------------------- to_string
\* The decimal digits of n >= 0, as character codes ('0' is 48).
RECURSIVE Digits(_)
Digits(n) == IF n < 10 THEN <<48 + n>> ELSE Append(Digits(n \div 10), 48 + (n % 10))

\* std::to_string( int ), which to_string_t<int> calls: "%d" ('-' is 45).
std_to_string(n) == IF n < 0 THEN <<45>> \o Digits(0 - n) ELSE Digits(n)

\* to_string( T const *ptr ) without the null check: the null pointer is
\* rendered as the int read through it.
tostrings_to_string_ptr_unchecked(p) == std_to_string(Pointee(p))

\* daw::tostrings::to_string( T const *ptr ): "" for a null pointer, and
\* otherwise to_string( *ptr ).
tostrings_to_string_ptr(p) == IF p = 0 THEN <<>> ELSE std_to_string(Pointee(p))

\* daw::tostrings::to_string( std::basic_string s ): s itself.
tostrings_to_string_str(s) == s

\* to_string_t<T>: to_string( get<T>( value ) ), by overload resolution on T.
to_string_t(T, v) ==
    LET x == get(v, T).val
    IN  CASE T = "int" -> std_to_string(x.int)
          [] T = "string" -> tostrings_to_string_str(x.str)
          [] T = "int*" -> tostrings_to_string_ptr(x.ptr)

\* to_string without the check for an empty variant: the zeroed storage is
\* read as an int.
to_string_no_empty_check(v) ==
    IF type_index(v) \in Types
    THEN to_string_t(get_helper_funcs(type_index(v)).to_string, v)
    ELSE std_to_string(v.m_buffer.int)

\* variant_t::to_string: "" when empty, else the registry's to_string.
to_string(v) ==
    IF empty(v) THEN <<>>
    ELSE to_string_t(get_helper_funcs(type_index(v)).to_string, v)

\* The calls of get_helper_funcs that variant_t::to_string makes.
to_string_lookups(v) == IF empty(v) THEN 0 ELSE 1

\* variant_t::operator*: to_string( ).
operator_star(v) == to_string(v)

\* ----------------------------------------------------------------- compare
\* The C++ standard libraries the code is built with.  The standard fixes
\* only the sign of what std::basic_string::compare returns.
StdLibs == {"libstdc++", "libc++"}

\* std::basic_string::compare: the difference of the first pair of characters
\* that differ (traits_type::compare over the common length); when there is
\* none, libstdc++ gives the difference of the lengths and libc++ gives -1, 0
\* or 1 as the left string is shorter, as long or longer.
StrCompare(s, t) ==
    LET n == IF Len(s) < Len(t) THEN Len(s) ELSE Len(t)
        d == {i \in 1..n : s[i] # t[i]}
    IN  IF d # {}
        THEN LET i == CHOOSE j \in d : \A k \in d : j <= k IN s[i] - t[i]
        ELSE IF stdlib = "libstdc++" THEN Len(s) - Len(t)
        ELSE IF Len(s) < Len(t) THEN -1
        ELSE IF Len(s) > Len(t) THEN 1
        ELSE 0

\* An outcome of a call that returns an int or throws.
CmpOk(n) == [kind |-> "ok", val |-> n]
CmpThrow(e) == [kind |-> e, val |-> 0]
NoCmp == [kind |-> "none", val |-> 0]

\* a == b on two payloads of type T (operator== of int, std::string, int*).
op_eq(T, a, b) ==
    CASE T = "int" -> a.int = b.int
      [] T = "string" -> a.str = b.str
      [] T = "int*" -> a.ptr = b.ptr

\* a < b on two payloads of type T (operator< of int, std::string, int*).
op_lt(T, a, b) ==
    CASE T = "int" -> a.int < b.int
      [] T = "string" -> StrCompare(a.str, b.str) < 0
      [] T = "int*" -> a.ptr < b.ptr

\* op_compare<T> with the results for less and greater exchanged.
op_compare_swapped(T, lhs, rhs) ==
    LET a == get(lhs, T)
        b == get(rhs, T)
    IN  IF a.kind # "ok" THEN CmpThrow(a.kind)
        ELSE IF b.kind # "ok" THEN CmpThrow(b.kind)
        ELSE IF op_eq(T, a.val, b.val) THEN CmpOk(0)
        ELSE IF op_lt(T, a.val, b.val) THEN CmpOk(1)
        ELSE CmpOk(-1)

\* op_compare<T> returning the difference of two ints in place of -1 and 1.
op_compare_difference(T, lhs, rhs) ==
    LET a == get(lhs, T)
        b == get(rhs, T)
    IN  IF a.kind # "ok" THEN CmpThrow(a.kind)
        ELSE IF b.kind # "ok" THEN CmpThrow(b.kind)
        ELSE IF op_eq(T, a.val, b.val) THEN CmpOk(0)
        ELSE IF T = "int" THEN CmpOk(a.val.int - b.val.int)
        ELSE IF op_lt(T, a.val, b.val) THEN CmpOk(-1)
        ELSE CmpOk(1)

\* generate_compare_t::op_compare<T>, the overload for a T with == and <
\* (int, std::string and int* all have both).
op_compare(T, lhs, rhs) ==
    LET a == get(lhs, T)
        b == get(rhs, T)
    IN  IF a.kind # "ok" THEN CmpThrow(a.kind)
        ELSE IF b.kind # "ok" THEN CmpThrow(b.kind)
        ELSE IF op_eq(T, a.val, b.val) THEN CmpOk(0)
        ELSE IF op_lt(T, a.val, b.val) THEN CmpOk(-1)
        ELSE CmpOk(1)

\* compare_t<T> without the to_string branch.
compare_t_always_native(T, lhs, rhs) == op_compare(T, lhs, rhs)

\* compare_t<T> with the two strings of the to_string branch exchanged.
compare_t_swapped_fallback(T, lhs, rhs) ==
    IF type_index(lhs) = type_index(rhs)
    THEN op_compare(T, lhs, rhs)
    ELSE CmpOk(StrCompare(to_string(rhs), to_string(lhs)))

\* generate_compare_t::compare_t<T>::operator().
compare_t(T, lhs, rhs) ==
    IF type_index(lhs) = type_index(rhs)
    THEN op_compare(T, lhs, rhs)
    ELSE CmpOk(StrCompare(to_string(lhs), to_string(rhs)))

\* variant_t::compare( variant_t const &rhs ): the registry's compare for the
\* stored type of *this; calling an empty std::function throws.
compare(lhs, rhs) ==
    LET f == get_helper_funcs(type_index(lhs)).compare
    IN  IF f = "null" THEN CmpThrow("bad_function_call") ELSE compare_t(f, lhs, rhs)

\* variant_t( T value ): variant_t{} and then store( move( value ) ).
variant_t_from(T, value) == store(variant_t, T, value)

\* variant_t::compare( T const &rhs ): compare( variant_t( rhs ) ).
compare_value(lhs, T, value) == compare(lhs, variant_t_from(T, value))

\* ------------------------------------------------------------ daw::not_null
\* daw::exception::daw_throw_on_null( p, msg ): throws
\* NullPtrAccessException when p is null (address 0).
daw_throw_on_null(p) == IF p = 0 THEN "NullPtrAccessException" ELSE "ok"

\* The constructor without the null check.
not_null_unchecked(value) == [kind |-> "ok", m_ptr |-> value]

\* not_null( U &&u ): m_ptr{u}, then daw_throw_on_null( m_ptr ).
not_null(value) == [kind |-> daw_throw_on_null(value), m_ptr |-> value]

\* not_null::get: daw_throw_on_null( m_ptr ), then m_ptr.
not_null_get(n) == [kind |-> daw_throw_on_null(n.m_ptr), val |-> n.m_ptr]

\* ---------------------------------------------------------- daw::expected_t
\* The callables given to bench_test and expected_from_code: the test's
\* []( auto i ) { return i * i; }, a square that throws std::out_of_range on
\* a negative argument, and a callable that always throws.
Funcs == {"sqr", "checked_sqr", "thrower"}

\* f( arg ): the value returned, or the exception thrown.
Call(f, arg) ==
    IF f = "sqr" THEN [kind |-> "ok", val |-> arg * arg]
    ELSE IF f = "checked_sqr"
         THEN IF arg < 0 THEN [kind |-> "std::out_of_range", val |-> 0]
              ELSE [kind |-> "ok", val |-> arg * arg]
    ELSE [kind |-> "std::runtime_error", val |-> 0]

\* expected_t( ): m_value{} holds the first alternative, empty_value_t.
expected_t == [alt |-> "empty_value_t", value |-> 0, exception |-> "none"]

\* m_value holding a value_type, and holding a std::exception_ptr.
ExpectedValue(n) == [alt |-> "value_type", value |-> n, exception |-> "none"]
ExpectedException(e) == [alt |-> "exception_ptr", value |-> 0, exception |-> e]

\* variant_from_code whose catch block returns the empty alternative.
variant_from_code_drops_exception(f, arg) ==
    IF Call(f, arg).kind = "ok" THEN ExpectedValue(Call(f, arg).val) ELSE expected_t

\* expected_t::variant_from_code: try { return func( args... ); }
\* catch( ... ) { return std::current_exception( ); }
variant_from_code(f, arg) ==
    IF Call(f, arg).kind = "ok" THEN ExpectedValue(Call(f, arg).val)
    ELSE ExpectedException(Call(f, arg).kind)

\* expected_t::from_code: result = expected_t( ); result.m_value =
\* variant_from_code( func, args... ); return result.
from_code(f, arg) == variant_from_code(f, arg)

\* expected_from_code( func, args... ), the result type deduced.
expected_from_code(f, arg) == from_code(f, arg)

\* expected_from_code<Result>( func, args... ): result = expected_t<Result>( );
\* result.from_code( func, args... ), whose return value is dropped; return
\* result.
expected_from_code_Result(f, arg) == expected_t

\* bench_test( title, test_callable, args... ): expected_from_code between
\* two readings of the clock, then the title and the time are printed.
bench_test(f, arg) == expected_from_code(f, arg)

\* expected_t::has_value, has_exception, empty.
has_value(e) == e.alt = "value_type"
has_exception(e) == e.alt = "exception_ptr"
expected_empty(e) == e.alt = "empty_value_t"

\* expected_t::get: std::terminate( ) when empty, rethrows the exception
\* held, and otherwise gives the value.
expected_get(e) ==
    IF expected_empty(e) THEN [kind |-> "std::terminate", val |-> 0]
    ELSE IF has_exception(e) THEN [kind |-> e.exception, val |-> 0]
    ELSE [kind |-> "ok", val |-> e.value]

\* ----------------------------------------------------------- daw::validated
\* Validator{}( value ), for a validator that accepts the ints from 0 up to
\* but not including MaxInt.
Validator(value) == 0 <= value /\ value < MaxInt

\* validated::validate: throws std::out_of_range when the validator returns
\* false, and otherwise gives the value back.
validate(value) ==
    [kind |-> IF Validator(value) THEN "ok" ELSE "std::out_of_range", val |-> value]

\* An assignment that stores first and validates what it stored.
validated_assign_then_validate(v, rhs) == [born |-> TRUE, m_value |-> rhs]

\* validated::operator=: m_value = validate( rhs ); validate throws before
\* anything is assigned.
validated_assign(v, rhs) ==
    IF validate(rhs).kind = "ok" THEN [born |-> TRUE, m_value |-> validate(rhs).val] ELSE v

\* ------------------------------------------------------------- the registry
\* variant_helper_funcs_t( ): the three std::function members are empty.
variant_helper_funcs_t == [to_string |-> "null", compare |-> "null", destruct |-> "null"]

\* generate_variant_helper_funcs_t::generate<T>: the to_string, compare and
\* destruct generated for T.
generate(T) == [to_string |-> T, compare |-> T, destruct |-> T]

\* get_variant_helpers<Types...>: results[get_type_index<T>( )] =
\* generate<T>( ) for every member type.
get_variant_helpers == [T \in Types |-> generate(T)]

\* std::unordered_map::operator[]: the map after map[idx], which inserts a
\* value-initialised entry when idx has none.
subscript(map, idx) ==
    IF idx \in DOMAIN map THEN map
    ELSE [k \in DOMAIN map \cup {idx} |->
            IF k = idx THEN variant_helper_funcs_t ELSE map[k]]

\* The calls of get_helper_funcs, in order, that an operation on v makes:
\* store( value ) of type T resets a variant that holds another type; reset
\* and to_string look up the stored type of a non-empty variant; get looks
\* nothing up; compare( value ) looks up the stored type of v, empty or not,
\* then on the to_string branch the types of both operands, and last the
\* type of the temporary variant_t( value ) that is destructed.
LookupsOf(op, v, T) ==
    CASE op = "store" ->
            IF ~is_same_type(v, T) /\ ~empty(v) THEN <<type_index(v)>> ELSE <<>>
      [] op \in {"reset", "to_string"} ->
            IF ~empty(v) THEN <<type_index(v)>> ELSE <<>>
      [] op = "compare" ->
            IF empty(v) THEN <<type_index(v), T>>
            ELSE IF is_same_type(v, T) THEN <<type_index(v), T>>
            ELSE <<type_index(v), type_index(v), T, T>>
      [] OTHER -> <<>>

\* -------------------------------------------------------------- daw::value_ptr
\* make_ptr( args... ): new value_type( args... ); the address returned is
\* Len(heap) + 1.
make_ptr(h, value) == Append(h, [val |-> value, deletes |-> 0, released |-> FALSE])

\* delete tmp;
delete(h, a) == [h EXCEPT ![a].deletes = @ + 1]

\* reset( ): tmp = std::exchange( m_value, nullptr ); if( tmp ) delete tmp;
value_ptr_reset(h, p) == IF p.m_value # 0 THEN delete(h, p.m_value) ELSE h

\* operator=( value_ptr && ): m_value = std::exchange( rhs.m_value, nullptr );
\* the object m_value pointed to before is not deleted.
value_ptr_move_assign(h, p) == h

\* ---------------------------------------------------------- daw::optional_heap
\* optional_heap( ): m_value{ }; has is static_cast<bool>( m_value ) and val
\* the int m_value points to.
optional_heap == [has |-> FALSE, val |-> 0]

\* optional_heap( value_type value ): std::make_unique<value_type>( value ).
optional_heap_from(value) == [has |-> TRUE, val |-> value]

\* operator==( optional_heap<T> const &, optional_heap<T> const & )
optional_heap_eq(lhs, rhs) ==
    IF lhs.has THEN (IF rhs.has THEN lhs.val = rhs.val ELSE FALSE)
    ELSE IF rhs.has THEN FALSE
    ELSE TRUE

\* operator!=
optional_heap_ne(lhs, rhs) ==
    IF lhs.has THEN (IF rhs.has THEN lhs.val # rhs.val ELSE TRUE)
    ELSE IF rhs.has THEN TRUE
    ELSE FALSE

\* operator<
optional_heap_lt(lhs, rhs) ==
    IF lhs.has THEN (IF rhs.has THEN lhs.val < rhs.val ELSE FALSE)
    ELSE IF rhs.has THEN TRUE
    ELSE TRUE

\* operator<=
optional_heap_le(lhs, rhs) ==
    IF lhs.has THEN (IF rhs.has THEN lhs.val <= rhs.val ELSE FALSE)
    ELSE IF rhs.has THEN TRUE
    ELSE TRUE

\* operator>
optional_heap_gt(lhs, rhs) ==
    IF lhs.has THEN (IF rhs.has THEN lhs.val > rhs.val ELSE TRUE)
    ELSE IF rhs.has THEN FALSE
    ELSE FALSE

\* operator>=
optional_heap_ge(lhs, rhs) ==
    IF lhs.has THEN (IF rhs.has THEN lhs.val >= rhs.val ELSE TRUE)
    ELSE IF rhs.has THEN FALSE
    ELSE FALSE

\* ------------------------------------------------------------ daw_parse_to.h
\* std::numeric_limits<Result>: is_signed, digits10, and the value a Result
\* holds after an arithmetic result n is stored in it (8 bits wide).
is_signed(T) == T = "int8_t"
digits10(T) == 2
as_Result(T, n) == IF is_signed(T) THEN ((n + 128) % 256) - 128 ELSE n % 256

\* daw::parser::is_number( c ): c is one of '0'..'9'.
is_number(c) == 48 <= c /\ c <= 57

ParseOk(val) == [kind |-> "ok", val |-> val]
ParseThrow(e) == [kind |-> e, val |-> 0]

\* The while loop of parse_int: at most count digits are consumed; the
\* result and what is left of str.
RECURSIVE parse_int_loop(_, _, _, _)
parse_int_loop(T, count, res, str) ==
    IF count > 0 /\ str # <<>> /\ is_number(Head(str))
    THEN parse_int_loop(T, count - 1,
                        as_Result(T, as_Result(T, res * 10) + (Head(str) - 48)),
                        Tail(str))
    ELSE [result |-> res, str |-> str]

\* helpers::parse_int<Result>( str ), str not empty.
parse_int(T, str) ==
    LET is_neg == Head(str) = 45
        digits == IF is_neg THEN Tail(str) ELSE str
        done   == parse_int_loop(T, digits10(T), 0, digits)
    IN  IF is_neg /\ ~is_signed(T) THEN ParseThrow("invalid_input_exception")
        ELSE IF done.str # <<>> THEN ParseThrow("numeric_overflow_exception")
        ELSE IF is_neg THEN ParseOk(as_Result(T, done.result * (0 - 1)))
        ELSE ParseOk(done.result)

\* helpers::parse_unsigned_int<Result>( str ), str not empty.
parse_unsigned_int(T, str) ==
    IF Head(str) = 45 THEN ParseThrow("invalid_input_exception")
    ELSE parse_int(T, str)

\* parse_to_value( str, T ) for a signed and for an unsigned integral T.
parse_to_value(T, str) ==
    IF str = <<>> THEN ParseThrow("empty_input_exception")
    ELSE IF is_signed(T) THEN parse_int(T, str)
    ELSE parse_unsigned_int(T, str)

\* ------------------------------------------- the variant of src/daw_variant.h
\* daw::optional<std::type_index>: <<>> when it holds nothing, <<idx>> when
\* it holds idx.
nullopt == <<>>
optional_of(idx) == <<idx>>
optional_has_value(o) == o # nullopt
optional_value(o) == Head(o)

\* variant_t( ): m_buffer{ }, m_stored_type{ }.
old_variant_t == [m_stored_type |-> nullopt, m_buffer |-> NoObject]

\* variant_t::empty: !static_cast<bool>( m_stored_type ).
old_empty(v) == ~optional_has_value(v.m_stored_type)

\* variant_t::is_same_type<T>: m_stored_type == get_type_index<T>( ).
old_is_same_type(v, T) == v.m_stored_type = optional_of(get_type_index(T))

\* variant_t::ptr<T>: throws on an empty variant and on another type.
old_ptr(v, T) ==
    IF old_empty(v) THEN Throw("bad_variant_t_access")
    ELSE IF ~old_is_same_type(v, T) THEN Throw("bad_variant_t_access")
    ELSE Ok(v.m_buffer)

\* variant_t::get<T>: *ptr<T>( ).
old_get(v, T) == old_ptr(v, T)

\* T{ }: the value-initialised T.
value_initialised(T) ==
    CASE T = "int" -> IntV(0)
      [] T = "string" -> StrV(<<>>)
      [] T = "int*" -> PtrV(0)

\* variant_t::set_type<T>( ): m_stored_type = get_type_index<T>( ) and
\* new( raw_ptr( ) ) T{ }; what the storage held is not destructed.
old_set_type(v, T) ==
    [v EXCEPT !.m_stored_type = optional_of(get_type_index(T)),
              !.m_buffer = value_initialised(T)]

\* store that leaves the value-initialised T in the storage.
old_store_no_assign(v, T, value) == old_set_type(v, T)

\* variant_t::store( T const &value ): set_type<T>( ); get<T>( ) = value;
old_store(v, T, value) ==
    LET s == old_set_type(v, T)
    IN  IF old_get(s, T).kind = "ok" THEN [s EXCEPT !.m_buffer = value] ELSE s

\* generate_destruct_t: value.get<T>( ).~T( );
old_destruct(T, v) ==
    IF old_get(v, T).kind = "ok" THEN [v EXCEPT !.m_buffer = NoObject] ELSE v

\* variant_t::reset: destructs the payload when a type is stored, then
\* m_stored_type.reset( ).
old_reset(v) ==
    [(IF optional_has_value(v.m_stored_type)
      THEN old_destruct(optional_value(v.m_stored_type), v)
      ELSE v) EXCEPT !.m_stored_type = nullopt]

\* generate_to_strings_t: to_string( get<T>( value ) ).
old_to_string_t(T, v) ==
    LET x == old_get(v, T).val
    IN  CASE T = "int" -> std_to_string(x.int)
          [] T = "string" -> tostrings_to_string_str(x.str)
          [] T = "int*" -> tostrings_to_string_ptr(x.ptr)

\* variant_t::to_string: "" when empty, else the registry's to_string.
old_to_string(v) ==
    IF old_empty(v) THEN <<>>
    ELSE old_to_string_t(optional_value(v.m_stored_type), v)

\* ---------------------------------------------------- relational operators
\* What a relational operator gives when lhs.compare( rhs ) has had the
\* outcome c: the truth value b, or the exception compare threw.
Relation(c, b) == IF c.kind = "ok" THEN [kind |-> "ok", val |-> b]
                  ELSE [kind |-> c.kind, val |-> FALSE]

\* operator== and operator!=: lhs.compare( rhs ) == 0, != 0.
operator_eq(c) == Relation(c, c.val = 0)
operator_ne(c) == Relation(c, c.val # 0)

\* operator< and operator>: lhs.compare( rhs ) < 0, > 0.
operator_lt(c) == Relation(c, c.val < 0)
operator_gt(c) == Relation(c, c.val > 0)

\* operator<= that tests compare( ) < 0.
operator_le_strict(c) == Relation(c, c.val < 0)

\* operator<= and operator>=: lhs.compare( rhs ) <= 0, >= 0.
operator_le(c) == Relation(c, c.val <= 0)
operator_ge(c) == Relation(c, c.val >= 0)

\* The six relational operators on one pair of operands.
relational(c) ==
    [eq |-> operator_eq(c), ne |-> operator_ne(c), lt |-> operator_lt(c),
     gt |-> operator_gt(c), le |-> operator_le(c), ge |-> operator_ge(c)]

\* ---------------------------------------------------------------- state
lifeVars == <<var, in_scope, constructed, destructed, last_call, result, seen>>
cmpVars == <<u, cmp, bare, rel, rel_bare>>
ownVars == <<ov, life, obj, dtors, own_call>>
stepVars == <<sv, pc, pending, step_out>>
nnVars == <<nn, nn_out>>
expVars == <<ex>>
vdVars == <<vd, vd_out>>
regVars == <<func_map, builds, builder, writes, tv, tpc, todo, looked>>
vpVars == <<vp, heap>>
ohVars == <<oh, oh_cmp>>
parseVars == <<pin, pr>>
eqVars == <<nv, old, obs>>
vars == <<var, in_scope, constructed, destructed, last_call, result, seen,
          u, cmp, bare, rel, rel_bare, stdlib, ov, life, obj, dtors, own_call,
          sv, pc, pending, step_out, nn, nn_out, ex, vd, vd_out,
          func_map, builds, builder, writes, tv, tpc, todo, looked,
          vp, heap,
          oh, oh_cmp,
          pin, pr,
          nv, old, obs>>

\* The variables the actions of each specification leave alone.
outsideSpec == <<cmpVars, ownVars, stepVars, nnVars, expVars, vdVars, regVars, vpVars, ohVars, parseVars, eqVars, stdlib>>
outsideCmpSpec == <<lifeVars, ownVars, stepVars, nnVars, expVars, vdVars, regVars, vpVars, ohVars, parseVars, eqVars, stdlib>>
outsideOwnSpec == <<lifeVars, cmpVars, stepVars, nnVars, expVars, vdVars, regVars, vpVars, ohVars, parseVars, eqVars, stdlib>>
outsideStepSpec == <<lifeVars, cmpVars, ownVars, nnVars, expVars, vdVars, regVars, vpVars, ohVars, parseVars, eqVars, stdlib>>
outsideNotNullSpec == <<lifeVars, cmpVars, ownVars, stepVars, expVars, vdVars, regVars, vpVars, ohVars, parseVars, eqVars, stdlib>>
outsideExpectedSpec == <<lifeVars, cmpVars, ownVars, stepVars, nnVars, vdVars, regVars, vpVars, ohVars, parseVars, eqVars, stdlib>>
outsideValidatedSpec == <<lifeVars, cmpVars, ownVars, stepVars, nnVars, expVars, regVars, vpVars, ohVars, parseVars, eqVars, stdlib>>
outsideRegSpec == <<lifeVars, cmpVars, ownVars, stepVars, nnVars, expVars, vdVars, vpVars, ohVars, parseVars, eqVars, stdlib>>
outsideValuePtrSpec == <<lifeVars, cmpVars, ownVars, stepVars, nnVars, expVars, vdVars, regVars, ohVars, parseVars, eqVars, stdlib>>
outsideOptionalHeapSpec == <<lifeVars, cmpVars, ownVars, stepVars, nnVars, expVars, vdVars, regVars, vpVars, parseVars, eqVars, stdlib>>
outsideParseSpec == <<lifeVars, cmpVars, ownVars, stepVars, nnVars, expVars, vdVars, regVars, vpVars, ohVars, eqVars, stdlib>>
outsideEquivSpec == <<lifeVars, cmpVars, ownVars, stepVars, nnVars, expVars, vdVars, regVars, vpVars, ohVars, parseVars, stdlib>>

\* The names of the variant objects of CmpSpec.
Names == {"a", "b", "c"}

\* No get has been made since var last changed.
NoResult == [type |-> empty_type, kind |-> "none", val |-> NoObject]

\* No const call has been made since var last changed.
NoSeen == [op |-> "none", flag |-> FALSE, idx |-> empty_type, text |-> <<>>, lookups |-> 0]

\* var has been constructed and nothing has been called on it.
NoCall == [op |-> "construct", type |-> empty_type, val |-> NoObject, held |-> FALSE]

\* Nothing has been compared since the variants last changed.
NotCompared == [p \in {} |-> NoCmp]

\* Whether cmp and bare are of the variants as they are now.
compared == DOMAIN cmp # {}

\* The names of the variant objects of OwnSpec.
OwnNames == {"a", "b"}

\* The values stored to the variants of OwnSpec: 5 and "10".
OwnValues == {IntV(5), StrV(<<49, 48>>)}

\* No variant has been copied or moved yet.
NoOwnCall == [op |-> "none", dst |-> "a", src |-> "a", from |-> variant_t]

\* The names of the not_null objects of NotNullSpec.
NnNames == {"t", "s"}

\* A not_null object that has not been constructed.
Unborn == [born |-> FALSE, m_ptr |-> 0]

\* No call has been made on the not_null objects.
NoNnCall == [op |-> "none", x |-> "t", arg |-> 0, kind |-> "none", val |-> 0, before |-> Unborn]

\* The names of the validated objects of ValidatedSpec.
VdNames == {"p", "q"}

\* A validated object that has not been constructed.
NotValidated == [born |-> FALSE, m_value |-> 0]

\* No call has been made on the validated objects.
NoVdCall == [op |-> "none", x |-> "p", arg |-> 0, kind |-> "none", val |-> 0,
             before |-> NotValidated]

\* No expected_t has been made: a default-constructed one is at hand.
NoExpectedCall == [fn |-> "none", f |-> "sqr", arg |-> 0, res |-> expected_t]

\* The threads of RegSpec.
Threads == {"t1", "t2"}

\* The operations a thread calls on its variant.
RegOps == {"store", "reset", "get", "to_string", "compare"}

\* func_map before the static initialisation has run.
NotBuilt == [k \in {} |-> variant_helper_funcs_t]

\* Thread t has not looked anything up.
NoLookup == [idx |-> empty_type, keys |-> {}, hit |-> FALSE, kind |-> "none",
             entry |-> variant_helper_funcs_t]

\* The daw::value_ptr<int> objects of the program, the ints they are given,
\* and a name that is not (or no longer) an object.  nullptr is 0; a heap
\* address is the index of the allocation in heap.
VpNames == {"x", "y"}
VpValues == {1, 2}
NoValuePtr == [alive |-> FALSE, m_value |-> 0]

\* The daw::optional_heap<int> objects of the program, the ints they are
\* given, and the record of a comparison before any was made.
OhNames == {"x", "y", "z"}
OhValues == {1, 2, 3}
NoOhCompare == [lhs |-> "none", rhs |-> "none", eq |-> FALSE, ne |-> FALSE,
                lt |-> FALSE, le |-> FALSE, gt |-> FALSE, ge |-> FALSE]

\* The integral types parse_to_value is called for, the characters of the
\* strings it is given ('-' and some digits), and no call made yet.
ParseTypes == {"int8_t", "uint8_t"}
ParseChars == {45, 48, 49, 50, 53, 56}
NoParse == [T |-> "none", str |-> <<>>, out |-> [kind |-> "none", val |-> 0]]

\* What a call that returns nothing is recorded as in EquivSpec, and the
\* record before any call.
Void == [kind |-> "void"]
NoObs == [op |-> "variant_t", T |-> "none", new |-> Void, old |-> Void]

\* Every variant is default-constructed, no not_null object is constructed
\* yet; the build uses either library.
Init ==
    /\ var = variant_t
    /\ in_scope = TRUE
    /\ constructed = 0
    /\ destructed = 0
    /\ last_call = NoCall
    /\ result = NoResult
    /\ seen = NoSeen
    /\ u = [x \in Names |-> variant_t]
    /\ cmp = NotCompared
    /\ bare = NotCompared
    /\ rel = NotCompared
    /\ rel_bare = NotCompared
    /\ stdlib \in StdLibs
    /\ ov = [x \in OwnNames |-> variant_t]
    /\ life = [x \in OwnNames |-> "unborn"]
    /\ obj = [x \in OwnNames |-> 0]
    /\ dtors = <<>>
    /\ own_call = NoOwnCall
    /\ sv = variant_t
    /\ pc = "idle"
    /\ pending = NoObject
    /\ step_out = "none"
    /\ nn = [x \in NnNames |-> Unborn]
    /\ nn_out = NoNnCall
    /\ ex = NoExpectedCall
    /\ vd = [x \in VdNames |-> NotValidated]
    /\ vd_out = NoVdCall
    /\ func_map = NotBuilt
    /\ builds = 0
    /\ builder = "none"
    /\ writes = 0
    /\ tv = [t \in Threads |-> variant_t]
    /\ tpc = [t \in Threads |-> "idle"]
    /\ todo = [t \in Threads |-> <<>>]
    /\ looked = [t \in Threads |-> NoLookup]
    /\ vp = [x \in VpNames |-> NoValuePtr]
    /\ heap = <<>>
    /\ oh = [x \in OhNames |-> optional_heap]
    /\ oh_cmp = NoOhCompare
    /\ pin = <<>>
    /\ pr = NoParse
    /\ nv = variant_t
    /\ old = old_variant_t
    /\ obs = NoObs

\* ------------------------------------------------------- the actions of Spec
\* var.store( value ) with value of type T.
Store(T, value) ==
    /\ in_scope
    /\ constructed < MaxOps
    /\ var' = store(var, T, value)
    /\ constructed' = constructed + 1
    /\ destructed' = destructed + set_type_destructs(var, T)
    /\ last_call' = [op |-> "store", type |-> T, val |-> value, held |-> ~empty(var)]
    /\ result' = NoResult
    /\ seen' = NoSeen
    /\ UNCHANGED in_scope
    /\ UNCHANGED outsideSpec

\* var = value: variant_t::operator=( T value ) is store( move( value ) ).
Assign(T, value) ==
    /\ in_scope
    /\ constructed < MaxOps
    /\ var' = store(var, T, value)
    /\ constructed' = constructed + 1
    /\ destructed' = destructed + set_type_destructs(var, T)
    /\ last_call' = [op |-> "assign", type |-> T, val |-> value, held |-> ~empty(var)]
    /\ result' = NoResult
    /\ seen' = NoSeen
    /\ UNCHANGED in_scope
    /\ UNCHANGED outsideSpec

\* var.reset( ).
Reset ==
    /\ in_scope
    /\ var' = reset(var)
    /\ destructed' = destructed + destructs(var)
    /\ last_call' = [op |-> "reset", type |-> empty_type, val |-> NoObject, held |-> ~empty(var)]
    /\ result' = NoResult
    /\ seen' = NoSeen
    /\ UNCHANGED <<in_scope, constructed>>
    /\ UNCHANGED outsideSpec

\* A get<T> that clears the stored type when it fails.
Get_resets_on_failure(T) ==
    /\ in_scope
    /\ result' = [type |-> T, kind |-> get(var, T).kind, val |-> get(var, T).val]
    /\ seen' = NoSeen
    /\ var' = IF get(var, T).kind = "ok" THEN var ELSE reset_type(var)
    /\ UNCHANGED <<in_scope, constructed, destructed, last_call>>
    /\ UNCHANGED outsideSpec

\* var.get<T>( ).
Get(T) ==
    /\ in_scope
    /\ result' = [type |-> T, kind |-> get(var, T).kind, val |-> get(var, T).val]
    /\ seen' = NoSeen
    /\ UNCHANGED <<var, in_scope, constructed, destructed, last_call>>
    /\ UNCHANGED outsideSpec

\* var.empty( ).
Empty ==
    /\ in_scope
    /\ seen' = [NoSeen EXCEPT !.op = "empty", !.flag = empty(var)]
    /\ result' = NoResult
    /\ UNCHANGED <<var, in_scope, constructed, destructed, last_call>>
    /\ UNCHANGED outsideSpec

\* var.type_index( ).
TypeIndex ==
    /\ in_scope
    /\ seen' = [NoSeen EXCEPT !.op = "type_index", !.idx = type_index(var)]
    /\ result' = NoResult
    /\ UNCHANGED <<var, in_scope, constructed, destructed, last_call>>
    /\ UNCHANGED outsideSpec

\* var.to_string( ).
ToString ==
    /\ in_scope
    /\ seen' = [NoSeen EXCEPT !.op = "to_string", !.text = to_string(var),
                              !.lookups = to_string_lookups(var)]
    /\ result' = NoResult
    /\ UNCHANGED <<var, in_scope, constructed, destructed, last_call>>
    /\ UNCHANGED outsideSpec

\* *var.
Star ==
    /\ in_scope
    /\ seen' = [NoSeen EXCEPT !.op = "operator*", !.text = operator_star(var),
                              !.lookups = to_string_lookups(var)]
    /\ result' = NoResult
    /\ UNCHANGED <<var, in_scope, constructed, destructed, last_call>>
    /\ UNCHANGED outsideSpec

\* ~variant_t at the end of var's scope: destructs the payload of a
\* non-empty variant.
Destroy ==
    /\ in_scope
    /\ in_scope' = FALSE
    /\ var' = IF ~empty(var)
              THEN destruct_t(get_helper_funcs(type_index(var)).destruct, var)
              ELSE var
    /\ destructed' = destructed + destructs(var)
    /\ last_call' = [op |-> "destroy", type |-> empty_type, val |-> NoObject, held |-> ~empty(var)]
    /\ result' = NoResult
    /\ seen' = NoSeen
    /\ UNCHANGED constructed
    /\ UNCHANGED outsideSpec

Next ==
    \/ \E T \in Types : \E value \in ValuesOf(T) : Store(T, value)
    \/ \E T \in Types : \E value \in ValuesOf(T) : Assign(T, value)
    \/ Reset
    \/ \E T \in Types : Get(T)
    \/ Empty
    \/ TypeIndex
    \/ ToString
    \/ Star
    \/ Destroy

Spec == Init /\ [][Next]_vars

\* ---------------------------------------------------- the actions of CmpSpec
\* u[x].store( value ) with value of type T.
CmpStore(x, T, value) ==
    /\ u' = [u EXCEPT ![x] = store(u[x], T, value)]
    /\ cmp' = NotCompared
    /\ bare' = NotCompared
    /\ rel' = NotCompared
    /\ rel_bare' = NotCompared
    /\ UNCHANGED outsideCmpSpec

\* u[x].reset( ).
CmpReset(x) ==
    /\ ~empty(u[x])
    /\ u' = [u EXCEPT ![x] = reset(u[x])]
    /\ cmp' = NotCompared
    /\ bare' = NotCompared
    /\ rel' = NotCompared
    /\ rel_bare' = NotCompared
    /\ UNCHANGED outsideCmpSpec

\* For every ordered pair: u[x].compare( u[y] ) and, when u[y] holds a
\* payload of type T, u[x].compare( u[y].get<T>( ) ).
Compare ==
    /\ ~compared
    /\ cmp' = [p \in Names \X Names |-> compare(u[p[1]], u[p[2]])]
    /\ bare' = [p \in Names \X Names |->
                  IF empty(u[p[2]]) THEN NoCmp
                  ELSE compare_value(u[p[1]], type_index(u[p[2]]),
                                     get(u[p[2]], type_index(u[p[2]])).val)]
    /\ rel' = [p \in Names \X Names |-> relational(compare(u[p[1]], u[p[2]]))]
    /\ rel_bare' = [p \in Names \X Names |->
                      IF empty(u[p[2]]) THEN relational(NoCmp)
                      ELSE relational(compare_value(u[p[1]], type_index(u[p[2]]),
                                                    get(u[p[2]], type_index(u[p[2]])).val))]
    /\ UNCHANGED u
    /\ UNCHANGED outsideCmpSpec

CmpNext ==
    \/ \E x \in Names : \E T \in Types : \E value \in ValuesOf(T) : CmpStore(x, T, value)
    \/ \E x \in Names : CmpReset(x)
    \/ Compare

CmpSpec == Init /\ [][CmpNext]_vars

\* ---------------------------------------------------- the actions of OwnSpec
\* variant_t( variant_t const & ) = default and operator=( variant_t const & )
\* = default: the members m_stored_type and m_buffer are copied one by one,
\* the storage byte for byte; no payload constructor runs.
defaulted_copy(src) ==
    [m_stored_type |-> src.m_stored_type, m_buffer |-> src.m_buffer]

\* The source of variant_t( variant_t && ) = default and of the defaulted
\* move assignment, after the move: stored_type_t's defaulted move copies its
\* std::type_index, and the bytes of the storage stay.
defaulted_move_source(src) == src

\* int and int* are trivially copyable: a copy of their bytes is an object of
\* its own.  std::string is not: a copy of its bytes stands for the string
\* it was copied from, whose buffer the two storages then share.
trivially_copyable(T) == T \in {"int", "int*"}

\* Whether a memberwise copy of src makes a payload of its own.
CopyIsPayload(src) == ~empty(src) /\ trivially_copyable(type_index(src))

\* A second destructor run on one payload is undefined behaviour: OwnSpec
\* follows the program up to there and no further.
NoDoubleDestruct == \A i \in DOMAIN dtors : dtors[i] <= 1

\* d after n destructor runs on payload i (payload 0 is no payload).
Bump(d, i, n) == IF i = 0 \/ n = 0 THEN d ELSE [d EXCEPT ![i] = @ + n]

\* variant_t x; the default constructor.
OwnConstruct(x) ==
    /\ NoDoubleDestruct
    /\ life[x] = "unborn"
    /\ life' = [life EXCEPT ![x] = "alive"]
    /\ ov' = [ov EXCEPT ![x] = variant_t]
    /\ obj' = [obj EXCEPT ![x] = 0]
    /\ own_call' = NoOwnCall
    /\ UNCHANGED dtors
    /\ UNCHANGED outsideOwnSpec

\* ov[x].store( value ): a new payload is constructed in the storage of x.
OwnStore(x, value) ==
    /\ NoDoubleDestruct
    /\ life[x] = "alive"
    /\ Len(dtors) < MaxOps
    /\ ov' = [ov EXCEPT ![x] = store(ov[x], value.type, value)]
    /\ dtors' = Append(Bump(dtors, obj[x], set_type_destructs(ov[x], value.type)), 0)
    /\ obj' = [obj EXCEPT ![x] = Len(dtors) + 1]
    /\ own_call' = NoOwnCall
    /\ UNCHANGED life
    /\ UNCHANGED outsideOwnSpec

\* ov[x].reset( ) on a variant that holds a value.
OwnReset(x) ==
    /\ NoDoubleDestruct
    /\ life[x] = "alive"
    /\ ~empty(ov[x])
    /\ ov' = [ov EXCEPT ![x] = reset(ov[x])]
    /\ dtors' = Bump(dtors, obj[x], destructs(ov[x]))
    /\ obj' = [obj EXCEPT ![x] = 0]
    /\ own_call' = NoOwnCall
    /\ UNCHANGED life
    /\ UNCHANGED outsideOwnSpec

\* variant_t x = y; the defaulted copy constructor.
OwnCopyConstruct(x, y) ==
    /\ NoDoubleDestruct
    /\ life[x] = "unborn"
    /\ life[y] = "alive"
    /\ life' = [life EXCEPT ![x] = "alive"]
    /\ ov' = [ov EXCEPT ![x] = defaulted_copy(ov[y])]
    /\ CopyIsPayload(ov[y]) => Len(dtors) < MaxOps
    /\ obj' = [obj EXCEPT ![x] = IF CopyIsPayload(ov[y]) THEN Len(dtors) + 1 ELSE obj[y]]
    /\ dtors' = IF CopyIsPayload(ov[y]) THEN Append(dtors, 0) ELSE dtors
    /\ own_call' = [op |-> "copy_construct", dst |-> x, src |-> y, from |-> ov[y]]
    /\ UNCHANGED outsideOwnSpec

\* variant_t x = std::move( y ); the defaulted move constructor.
OwnMoveConstruct(x, y) ==
    /\ NoDoubleDestruct
    /\ life[x] = "unborn"
    /\ life[y] = "alive"
    /\ life' = [life EXCEPT ![x] = "alive"]
    /\ ov' = [ov EXCEPT ![x] = defaulted_copy(ov[y]), ![y] = defaulted_move_source(ov[y])]
    /\ CopyIsPayload(ov[y]) => Len(dtors) < MaxOps
    /\ obj' = [obj EXCEPT ![x] = IF CopyIsPayload(ov[y]) THEN Len(dtors) + 1 ELSE obj[y]]
    /\ dtors' = IF CopyIsPayload(ov[y]) THEN Append(dtors, 0) ELSE dtors
    /\ own_call' = [op |-> "move_construct", dst |-> x, src |-> y, from |-> ov[y]]
    /\ UNCHANGED outsideOwnSpec

\* x = y; the defaulted copy assignment: the members of x are overwritten,
\* no destructor runs on the payload x held.
OwnCopyAssign(x, y) ==
    /\ NoDoubleDestruct
    /\ x # y
    /\ life[x] = "alive"
    /\ life[y] = "alive"
    /\ ov' = [ov EXCEPT ![x] = defaulted_copy(ov[y])]
    /\ CopyIsPayload(ov[y]) => Len(dtors) < MaxOps
    /\ obj' = [obj EXCEPT ![x] = IF CopyIsPayload(ov[y]) THEN Len(dtors) + 1 ELSE obj[y]]
    /\ dtors' = IF CopyIsPayload(ov[y]) THEN Append(dtors, 0) ELSE dtors
    /\ own_call' = [op |-> "copy_assign", dst |-> x, src |-> y, from |-> ov[y]]
    /\ UNCHANGED life
    /\ UNCHANGED outsideOwnSpec

\* x = std::move( y ); the defaulted move assignment.
OwnMoveAssign(x, y) ==
    /\ NoDoubleDestruct
    /\ x # y
    /\ life[x] = "alive"
    /\ life[y] = "alive"
    /\ ov' = [ov EXCEPT ![x] = defaulted_copy(ov[y]), ![y] = defaulted_move_source(ov[y])]
    /\ CopyIsPayload(ov[y]) => Len(dtors) < MaxOps
    /\ obj' = [obj EXCEPT ![x] = IF CopyIsPayload(ov[y]) THEN Len(dtors) + 1 ELSE obj[y]]
    /\ dtors' = IF CopyIsPayload(ov[y]) THEN Append(dtors, 0) ELSE dtors
    /\ own_call' = [op |-> "move_assign", dst |-> x, src |-> y, from |-> ov[y]]
    /\ UNCHANGED life
    /\ UNCHANGED outsideOwnSpec

\* ~variant_t at the end of the scope of x.
OwnDestroy(x) ==
    /\ NoDoubleDestruct
    /\ life[x] = "alive"
    /\ life' = [life EXCEPT ![x] = "dead"]
    /\ ov' = [ov EXCEPT ![x] = IF ~empty(ov[x])
                             THEN destruct_t(get_helper_funcs(type_index(ov[x])).destruct, ov[x])
                             ELSE ov[x]]
    /\ dtors' = Bump(dtors, obj[x], destructs(ov[x]))
    /\ own_call' = NoOwnCall
    /\ UNCHANGED obj
    /\ UNCHANGED outsideOwnSpec

OwnNext ==
    \/ \E x \in OwnNames : OwnConstruct(x)
    \/ \E x \in OwnNames : \E value \in OwnValues : OwnStore(x, value)
    \/ \E x \in OwnNames : OwnReset(x)
    \/ \E x \in OwnNames : \E y \in OwnNames : OwnCopyConstruct(x, y)
    \/ \E x \in OwnNames : \E y \in OwnNames : OwnMoveConstruct(x, y)
    \/ \E x \in OwnNames : \E y \in OwnNames : OwnCopyAssign(x, y)
    \/ \E x \in OwnNames : \E y \in OwnNames : OwnMoveAssign(x, y)
    \/ \E x \in OwnNames : OwnDestroy(x)

OwnSpec == Init /\ [][OwnNext]_vars


\* --------------------------------------------------- the actions of StepSpec
\* The member types whose constructor can throw in the placement new: a
\* std::string stored from a const value is copied, which allocates and can
\* throw std::bad_alloc; the constructors of int and int* cannot throw.
CanThrow(T) == T = "string"

\* sv.store( value ) enters set_type: if( !is_same_type<T>( ) ) { reset( ); }
SetTypeReset(T, value) ==
    /\ pc = "idle"
    /\ sv' = IF ~is_same_type(sv, T) THEN reset(sv) ELSE sv
    /\ pending' = value
    /\ pc' = "reset_done"
    /\ step_out' = "running"
    /\ UNCHANGED outsideStepSpec

\* m_stored_type = get_type_index<T>( );
SetTypeStoredType ==
    /\ pc = "reset_done"
    /\ sv' = [sv EXCEPT !.m_stored_type = get_type_index(pending.type)]
    /\ pc' = "type_set"
    /\ UNCHANGED <<pending, step_out>>
    /\ UNCHANGED outsideStepSpec

\* void *p = raw_ptr( ); new( p ) T( std::forward<T>( value ) ); the
\* constructor returns.
SetTypeConstruct ==
    /\ pc = "type_set"
    /\ sv' = [sv EXCEPT !.m_buffer = pending]
    /\ pc' = "idle"
    /\ pending' = NoObject
    /\ step_out' = "ok"
    /\ UNCHANGED outsideStepSpec

\* new( p ) T( std::forward<T>( value ) ); the constructor throws: the
\* exception leaves store( ), the storage is as it was.
SetTypeConstructThrows ==
    /\ pc = "type_set"
    /\ CanThrow(pending.type)
    /\ pc' = "idle"
    /\ pending' = NoObject
    /\ step_out' = "bad_alloc"
    /\ UNCHANGED sv
    /\ UNCHANGED outsideStepSpec

StepNext ==
    \/ \E T \in Types : \E value \in ValuesOf(T) : SetTypeReset(T, value)
    \/ SetTypeStoredType
    \/ SetTypeConstruct
    \/ SetTypeConstructThrows

StepSpec == Init /\ [][StepNext]_vars

\* ------------------------------------------------ the actions of NotNullSpec
\* daw::not_null<int *> x = value; when the constructor throws, no object
\* comes to be.
NnConstruct(x, value) ==
    /\ ~nn[x].born
    /\ nn' = [nn EXCEPT ![x] = IF not_null(value).kind = "ok"
                               THEN [born |-> TRUE, m_ptr |-> not_null(value).m_ptr]
                               ELSE nn[x]]
    /\ nn_out' = [op |-> "construct", x |-> x, arg |-> value,
                  kind |-> not_null(value).kind, val |-> 0, before |-> nn[x]]
    /\ UNCHANGED outsideNotNullSpec

\* x = value; with value an int *: a temporary not_null( value ) is
\* constructed and, when that returns, copy-assigned to x.
NnAssign(x, value) ==
    /\ nn[x].born
    /\ nn' = [nn EXCEPT ![x] = IF not_null(value).kind = "ok"
                               THEN [born |-> TRUE, m_ptr |-> not_null(value).m_ptr]
                               ELSE nn[x]]
    /\ nn_out' = [op |-> "assign", x |-> x, arg |-> value,
                  kind |-> not_null(value).kind, val |-> 0, before |-> nn[x]]
    /\ UNCHANGED outsideNotNullSpec

\* daw::not_null<int *> x = y; the defaulted copy constructor.
NnCopyConstruct(x, y) ==
    /\ ~nn[x].born
    /\ nn[y].born
    /\ nn' = [nn EXCEPT ![x] = [born |-> TRUE, m_ptr |-> nn[y].m_ptr]]
    /\ nn_out' = [op |-> "copy_construct", x |-> x, arg |-> nn[y].m_ptr,
                  kind |-> "ok", val |-> 0, before |-> nn[x]]
    /\ UNCHANGED outsideNotNullSpec

\* x = y; the defaulted copy assignment.
NnCopyAssign(x, y) ==
    /\ x # y
    /\ nn[x].born
    /\ nn[y].born
    /\ nn' = [nn EXCEPT ![x] = [born |-> TRUE, m_ptr |-> nn[y].m_ptr]]
    /\ nn_out' = [op |-> "copy_assign", x |-> x, arg |-> nn[y].m_ptr,
                  kind |-> "ok", val |-> 0, before |-> nn[x]]
    /\ UNCHANGED outsideNotNullSpec

\* x.get( ), which operator T and operator-> return.
NnGet(x) ==
    /\ nn[x].born
    /\ nn_out' = [op |-> "get", x |-> x, arg |-> 0,
                  kind |-> not_null_get(nn[x]).kind, val |-> not_null_get(nn[x]).val,
                  before |-> nn[x]]
    /\ UNCHANGED nn
    /\ UNCHANGED outsideNotNullSpec

NotNullNext ==
    \/ \E x \in NnNames : \E value \in PtrVals : NnConstruct(x, value)
    \/ \E x \in NnNames : \E value \in PtrVals : NnAssign(x, value)
    \/ \E x \in NnNames : \E y \in NnNames : NnCopyConstruct(x, y)
    \/ \E x \in NnNames : \E y \in NnNames : NnCopyAssign(x, y)
    \/ \E x \in NnNames : NnGet(x)

NotNullSpec == Init /\ [][NotNullNext]_vars

\* ----------------------------------------------- the actions of ExpectedSpec
\* auto res = daw::bench_test( "sqr: ", f, arg );
BenchTest(f, arg) ==
    /\ ex' = [fn |-> "bench_test", f |-> f, arg |-> arg, res |-> bench_test(f, arg)]
    /\ UNCHANGED outsideExpectedSpec

\* auto res = daw::expected_from_code( f, arg );
ExpectedFromCode(f, arg) ==
    /\ ex' = [fn |-> "expected_from_code", f |-> f, arg |-> arg,
              res |-> expected_from_code(f, arg)]
    /\ UNCHANGED outsideExpectedSpec

\* auto res = daw::expected_from_code<int>( f, arg );
ExpectedFromCodeResult(f, arg) ==
    /\ ex' = [fn |-> "expected_from_code<Result>", f |-> f, arg |-> arg,
              res |-> expected_from_code_Result(f, arg)]
    /\ UNCHANGED outsideExpectedSpec

ExpectedNext ==
    \/ \E f \in Funcs : \E arg \in IntVals : BenchTest(f, arg)
    \/ \E f \in Funcs : \E arg \in IntVals : ExpectedFromCode(f, arg)
    \/ \E f \in Funcs : \E arg \in IntVals : ExpectedFromCodeResult(f, arg)

ExpectedSpec == Init /\ [][ExpectedNext]_vars

\* ---------------------------------------------- the actions of ValidatedSpec
\* daw::validated<int, Validator> x( value ): m_value( validate(
\* construct_a<int>{}( value ) ) ); when validate throws, no object comes to
\* be.
VdConstruct(x, value) ==
    /\ ~vd[x].born
    /\ vd' = [vd EXCEPT ![x] = IF validate(value).kind = "ok"
                               THEN [born |-> TRUE, m_value |-> validate(value).val]
                               ELSE vd[x]]
    /\ vd_out' = [op |-> "construct", x |-> x, arg |-> value,
                  kind |-> validate(value).kind, val |-> 0, before |-> vd[x]]
    /\ UNCHANGED outsideValidatedSpec

\* x = value; with value an lvalue int: operator=( const_reference ).
VdAssign(x, value) ==
    /\ vd[x].born
    /\ vd' = [vd EXCEPT ![x] = validated_assign(vd[x], value)]
    /\ vd_out' = [op |-> "assign", x |-> x, arg |-> value,
                  kind |-> validate(value).kind, val |-> 0, before |-> vd[x]]
    /\ UNCHANGED outsideValidatedSpec

\* x = std::move( value ); operator=( value_t && ).
VdAssignMove(x, value) ==
    /\ vd[x].born
    /\ vd' = [vd EXCEPT ![x] = validated_assign(vd[x], value)]
    /\ vd_out' = [op |-> "assign_move", x |-> x, arg |-> value,
                  kind |-> validate(value).kind, val |-> 0, before |-> vd[x]]
    /\ UNCHANGED outsideValidatedSpec

\* daw::validated<int, Validator> x = y; the implicit copy constructor.
VdCopyConstruct(x, y) ==
    /\ ~vd[x].born
    /\ vd[y].born
    /\ vd' = [vd EXCEPT ![x] = [born |-> TRUE, m_value |-> vd[y].m_value]]
    /\ vd_out' = [op |-> "copy_construct", x |-> x, arg |-> vd[y].m_value,
                  kind |-> "ok", val |-> 0, before |-> vd[x]]
    /\ UNCHANGED outsideValidatedSpec

\* x = y; the implicit copy assignment.
VdCopyAssign(x, y) ==
    /\ x # y
    /\ vd[x].born
    /\ vd[y].born
    /\ vd' = [vd EXCEPT ![x] = [born |-> TRUE, m_value |-> vd[y].m_value]]
    /\ vd_out' = [op |-> "copy_assign", x |-> x, arg |-> vd[y].m_value,
                  kind |-> "ok", val |-> 0, before |-> vd[x]]
    /\ UNCHANGED outsideValidatedSpec

\* x.get( ), which the conversion to int const & and operator* return.
VdGet(x) ==
    /\ vd[x].born
    /\ vd_out' = [op |-> "get", x |-> x, arg |-> 0, kind |-> "ok",
                  val |-> vd[x].m_value, before |-> vd[x]]
    /\ UNCHANGED vd
    /\ UNCHANGED outsideValidatedSpec

ValidatedNext ==
    \/ \E x \in VdNames : \E value \in IntVals : VdConstruct(x, value)
    \/ \E x \in VdNames : \E value \in IntVals : VdAssign(x, value)
    \/ \E x \in VdNames : \E value \in IntVals : VdAssignMove(x, value)
    \/ \E x \in VdNames : \E y \in VdNames : VdCopyConstruct(x, y)
    \/ \E x \in VdNames : \E y \in VdNames : VdCopyAssign(x, y)
    \/ \E x \in VdNames : VdGet(x)

ValidatedSpec == Init /\ [][ValidatedNext]_vars

\* --------------------------------------------------- the actions of RegSpec
\* Thread t calls op on its variant; the variant changes as the operation
\* says, and the lookups the operation makes are still to come.
RegBegin(t, op, value) ==
    /\ tpc[t] = "idle"
    /\ tv' = [tv EXCEPT ![t] = CASE op = "store" -> store(tv[t], value.type, value)
                                 [] op = "reset" -> reset(tv[t])
                                 [] OTHER -> tv[t]]
    /\ todo' = [todo EXCEPT ![t] = LookupsOf(op, tv[t], value.type)]
    /\ tpc' = [tpc EXCEPT ![t] = IF LookupsOf(op, tv[t], value.type) = <<>>
                                 THEN "idle" ELSE "call"]
    /\ looked' = [looked EXCEPT ![t] = NoLookup]
    /\ UNCHANGED <<func_map, builds, builder, writes>>
    /\ UNCHANGED outsideRegSpec

\* get_helper_funcs: thread t reaches static auto func_map first and starts
\* its initialisation; the threads that come while it runs wait.
RegEnterInit(t) ==
    /\ tpc[t] = "call"
    /\ builds = 0
    /\ builder = "none"
    /\ builder' = t
    /\ tpc' = [tpc EXCEPT ![t] = "building"]
    /\ UNCHANGED <<func_map, builds, writes, tv, todo, looked>>
    /\ UNCHANGED outsideRegSpec

\* func_map = get_variant_helpers<Types...>( ): the initialisation ends.
RegFinishInit(t) ==
    /\ tpc[t] = "building"
    /\ func_map' = get_variant_helpers
    /\ builds' = builds + 1
    /\ builder' = "none"
    /\ tpc' = [tpc EXCEPT ![t] = "call"]
    /\ UNCHANGED <<writes, tv, todo, looked>>
    /\ UNCHANGED outsideRegSpec

\* return func_map[idx]; on the initialised map.
RegLookup(t) ==
    /\ tpc[t] = "call"
    /\ builds > 0
    /\ func_map' = subscript(func_map, Head(todo[t]))
    /\ writes' = writes + (IF Head(todo[t]) \in DOMAIN func_map THEN 0 ELSE 1)
    /\ looked' = [looked EXCEPT ![t] =
                    [idx |-> Head(todo[t]), keys |-> DOMAIN func_map,
                     hit |-> Head(todo[t]) \in DOMAIN func_map, kind |-> "ok",
                     entry |-> subscript(func_map, Head(todo[t]))[Head(todo[t])]]]
    /\ todo' = [todo EXCEPT ![t] = Tail(todo[t])]
    /\ tpc' = [tpc EXCEPT ![t] = IF Tail(todo[t]) = <<>> THEN "idle" ELSE "call"]
    /\ UNCHANGED <<builds, builder, tv>>
    /\ UNCHANGED outsideRegSpec

RegNext ==
    \/ \E t \in Threads : \E op \in RegOps : \E value \in OwnValues : RegBegin(t, op, value)
    \/ \E t \in Threads : RegEnterInit(t)
    \/ \E t \in Threads : RegFinishInit(t)
    \/ \E t \in Threads : RegLookup(t)

RegSpec == Init /\ [][RegNext]_vars

\* --------------------------------------------- the actions of ValuePtrSpec
\* daw::value_ptr<int> x( value );
VpConstruct(x, value) ==
    /\ ~vp[x].alive
    /\ Len(heap) < MaxOps
    /\ heap' = make_ptr(heap, value)
    /\ vp' = [vp EXCEPT ![x] = [alive |-> TRUE, m_value |-> Len(heap) + 1]]
    /\ UNCHANGED outsideValuePtrSpec

\* daw::value_ptr<int> x( ptr ); with ptr a pointer release( ) handed out.
VpAdopt(x, a) ==
    /\ ~vp[x].alive
    /\ a \in 1..Len(heap)
    /\ heap[a].released
    /\ heap' = [heap EXCEPT ![a].released = FALSE]
    /\ vp' = [vp EXCEPT ![x] = [alive |-> TRUE, m_value |-> a]]
    /\ UNCHANGED outsideValuePtrSpec

\* daw::value_ptr<int> x( y ); y holds an object.
VpCopyConstruct(x, y) ==
    /\ ~vp[x].alive
    /\ vp[y].alive
    /\ vp[y].m_value # 0
    /\ Len(heap) < MaxOps
    /\ heap' = make_ptr(heap, heap[vp[y].m_value].val)
    /\ vp' = [vp EXCEPT ![x] = [alive |-> TRUE, m_value |-> Len(heap) + 1]]
    /\ UNCHANGED outsideValuePtrSpec

\* daw::value_ptr<int> x( std::move( y ) );
VpMoveConstruct(x, y) ==
    /\ ~vp[x].alive
    /\ vp[y].alive
    /\ vp' = [vp EXCEPT ![x] = [alive |-> TRUE, m_value |-> vp[y].m_value],
                        ![y].m_value = 0]
    /\ UNCHANGED heap
    /\ UNCHANGED outsideValuePtrSpec

\* x = y; both hold an object.
VpCopyAssign(x, y) ==
    /\ vp[x].alive
    /\ vp[y].alive
    /\ vp[x].m_value # 0
    /\ vp[y].m_value # 0
    /\ heap' = [heap EXCEPT ![vp[x].m_value].val = heap[vp[y].m_value].val]
    /\ UNCHANGED vp
    /\ UNCHANGED outsideValuePtrSpec

\* x = std::move( y );
VpMoveAssign(x, y) ==
    /\ vp[x].alive
    /\ vp[y].alive
    /\ heap' = value_ptr_move_assign(heap, vp[x])
    /\ vp' = [[vp EXCEPT ![y].m_value = 0] EXCEPT ![x].m_value = vp[y].m_value]
    /\ UNCHANGED outsideValuePtrSpec

\* x = value; x holds an object.
VpAssignValue(x, value) ==
    /\ vp[x].alive
    /\ vp[x].m_value # 0
    /\ heap' = [heap EXCEPT ![vp[x].m_value].val = value]
    /\ UNCHANGED vp
    /\ UNCHANGED outsideValuePtrSpec

\* x.reset( );
VpReset(x) ==
    /\ vp[x].alive
    /\ heap' = value_ptr_reset(heap, vp[x])
    /\ vp' = [vp EXCEPT ![x].m_value = 0]
    /\ UNCHANGED outsideValuePtrSpec

\* x.release( );
VpRelease(x) ==
    /\ vp[x].alive
    /\ vp[x].m_value # 0
    /\ heap' = [heap EXCEPT ![vp[x].m_value].released = TRUE]
    /\ vp' = [vp EXCEPT ![x].m_value = 0]
    /\ UNCHANGED outsideValuePtrSpec

\* swap( x, y );
VpSwap(x, y) ==
    /\ vp[x].alive
    /\ vp[y].alive
    /\ vp[x].m_value # vp[y].m_value
    /\ vp' = [vp EXCEPT ![x].m_value = vp[y].m_value, ![y].m_value = vp[x].m_value]
    /\ UNCHANGED heap
    /\ UNCHANGED outsideValuePtrSpec

\* x goes out of scope: ~value_ptr( ) calls reset( ).
VpDestroy(x) ==
    /\ vp[x].alive
    /\ heap' = value_ptr_reset(heap, vp[x])
    /\ vp' = [vp EXCEPT ![x] = NoValuePtr]
    /\ UNCHANGED outsideValuePtrSpec

ValuePtrNext ==
    \/ \E x \in VpNames : \E value \in VpValues : VpConstruct(x, value)
    \/ \E x \in VpNames : \E a \in 1..MaxOps : VpAdopt(x, a)
    \/ \E x \in VpNames : \E y \in VpNames \ {x} : VpCopyConstruct(x, y)
    \/ \E x \in VpNames : \E y \in VpNames \ {x} : VpMoveConstruct(x, y)
    \/ \E x \in VpNames : \E y \in VpNames : VpCopyAssign(x, y)
    \/ \E x \in VpNames : \E y \in VpNames : VpMoveAssign(x, y)
    \/ \E x \in VpNames : \E value \in VpValues : VpAssignValue(x, value)
    \/ \E x \in VpNames : VpReset(x)
    \/ \E x \in VpNames : VpRelease(x)
    \/ \E x \in VpNames : \E y \in VpNames \ {x} : VpSwap(x, y)
    \/ \E x \in VpNames : VpDestroy(x)

ValuePtrSpec == Init /\ [][ValuePtrNext]_vars

\* ------------------------------------------ the actions of OptionalHeapSpec
\* x = value;
OhAssignValue(x, value) ==
    /\ oh' = [oh EXCEPT ![x] = optional_heap_from(value)]
    /\ UNCHANGED oh_cmp
    /\ UNCHANGED outsideOptionalHeapSpec

\* x = y; y holds a value (the code reads *rhs.m_value).
OhCopyAssign(x, y) ==
    /\ oh[y].has
    /\ oh' = [oh EXCEPT ![x] = optional_heap_from(oh[y].val)]
    /\ UNCHANGED oh_cmp
    /\ UNCHANGED outsideOptionalHeapSpec

\* x = std::move( y ); the unique_ptr moved from is left null.
OhMoveAssign(x, y) ==
    /\ oh' = [oh EXCEPT ![x] = oh[y], ![y] = optional_heap]
    /\ UNCHANGED oh_cmp
    /\ UNCHANGED outsideOptionalHeapSpec

\* swap( x, y );
OhSwap(x, y) ==
    /\ oh' = [oh EXCEPT ![x] = oh[y], ![y] = oh[x]]
    /\ UNCHANGED oh_cmp
    /\ UNCHANGED outsideOptionalHeapSpec

\* x.reset( );
OhReset(x) ==
    /\ oh' = [oh EXCEPT ![x] = optional_heap]
    /\ UNCHANGED oh_cmp
    /\ UNCHANGED outsideOptionalHeapSpec

\* x == y, x != y, x < y, x <= y, x > y, x >= y, one after the other.
OhCompare(x, y) ==
    /\ oh_cmp' = [lhs |-> x, rhs |-> y,
                  eq |-> optional_heap_eq(oh[x], oh[y]),
                  ne |-> optional_heap_ne(oh[x], oh[y]),
                  lt |-> optional_heap_lt(oh[x], oh[y]),
                  le |-> optional_heap_le(oh[x], oh[y]),
                  gt |-> optional_heap_gt(oh[x], oh[y]),
                  ge |-> optional_heap_ge(oh[x], oh[y])]
    /\ UNCHANGED oh
    /\ UNCHANGED outsideOptionalHeapSpec

OptionalHeapNext ==
    \/ \E x \in OhNames : \E value \in OhValues : OhAssignValue(x, value)
    \/ \E x \in OhNames : \E y \in OhNames \ {x} : OhCopyAssign(x, y)
    \/ \E x \in OhNames : \E y \in OhNames \ {x} : OhMoveAssign(x, y)
    \/ \E x \in OhNames : \E y \in OhNames \ {x} : OhSwap(x, y)
    \/ \E x \in OhNames : OhReset(x)
    \/ \E x \in OhNames : \E y \in OhNames : OhCompare(x, y)

OptionalHeapSpec == Init /\ [][OptionalHeapNext]_vars

\* --------------------------------------------------- the actions of ParseSpec
\* The program reads one more character of its input.
ParseInput(c) ==
    /\ pr.T = "none"
    /\ Len(pin) < ParseMaxLen
    /\ pin' = Append(pin, c)
    /\ UNCHANGED pr
    /\ UNCHANGED outsideParseSpec

\* parse_to_value( str, int8_t{ } ); on the input read.
ParseSigned ==
    /\ pr.T = "none"
    /\ pr' = [T |-> "int8_t", str |-> pin, out |-> parse_to_value("int8_t", pin)]
    /\ UNCHANGED pin
    /\ UNCHANGED outsideParseSpec

\* parse_to_value( str, uint8_t{ } ); on the input read.
ParseUnsigned ==
    /\ pr.T = "none"
    /\ pr' = [T |-> "uint8_t", str |-> pin, out |-> parse_to_value("uint8_t", pin)]
    /\ UNCHANGED pin
    /\ UNCHANGED outsideParseSpec

ParseNext ==
    \/ \E c \in ParseChars : ParseInput(c)
    \/ ParseSigned
    \/ ParseUnsigned

ParseSpec == Init /\ [][ParseNext]_vars

\* ---------------------------------------------------- the actions of EquivSpec
\* Both variants are given the same call; obs records what each returned.
\* v_new n; v_old o; in place of the two before.
EqConstruct ==
    /\ nv' = variant_t
    /\ old' = old_variant_t
    /\ obs' = [op |-> "variant_t", T |-> "none", new |-> Void, old |-> Void]
    /\ UNCHANGED outsideEquivSpec

\* n.store( value ); o.store( value );
EqStore(value) ==
    /\ nv' = store(nv, value.type, value)
    /\ old' = old_store(old, value.type, value)
    /\ obs' = [op |-> "store", T |-> value.type, new |-> Void, old |-> Void]
    /\ UNCHANGED outsideEquivSpec

\* n.reset( ); o.reset( );
EqReset ==
    /\ nv' = reset(nv)
    /\ old' = old_reset(old)
    /\ obs' = [op |-> "reset", T |-> "none", new |-> Void, old |-> Void]
    /\ UNCHANGED outsideEquivSpec

\* n.empty( ); o.empty( );
EqEmpty ==
    /\ obs' = [op |-> "empty", T |-> "none",
               new |-> Ok(empty(nv)), old |-> Ok(old_empty(old))]
    /\ UNCHANGED <<nv, old>>
    /\ UNCHANGED outsideEquivSpec

\* n.get<T>( ); o.get<T>( );
EqGet(T) ==
    /\ obs' = [op |-> "get", T |-> T, new |-> get(nv, T), old |-> old_get(old, T)]
    /\ UNCHANGED <<nv, old>>
    /\ UNCHANGED outsideEquivSpec

\* n.to_string( ); o.to_string( );
EqToString ==
    /\ obs' = [op |-> "to_string", T |-> "none",
               new |-> Ok(to_string(nv)), old |-> Ok(old_to_string(old))]
    /\ UNCHANGED <<nv, old>>
    /\ UNCHANGED outsideEquivSpec

EquivNext ==
    \/ EqConstruct
    \/ \E value \in Values : EqStore(value)
    \/ EqReset
    \/ EqEmpty
    \/ \E T \in Types : EqGet(T)
    \/ EqToString

EquivSpec == Init /\ [][EquivNext]_vars

\* ------------------------------------------------------------------ claims
\* C1: every payload constructed in the storage is destructed exactly once:
\* at any moment the payloads constructed and not yet destructed are exactly
\* the one the variant holds (none when it is empty), so that once the
\* variant has gone out of scope the constructions equal the destructions.
C1_DestructedExactlyOnce ==
    /\ destructed <= constructed
    /\ constructed - destructed = (IF in_scope /\ ~empty(var) THEN 1 ELSE 0)
    /\ ~in_scope => constructed = destructed

\* C2: a default-constructed variant is empty, and after any calls of store,
\* operator= and reset the variant is either empty, when the last call was
\* reset or there was none, or holds the type of the value stored last, and
\* never both.
C2_EmptyOrLastStored ==
    in_scope =>
        /\ last_call.op \in {"construct", "reset"} =>
              empty(var) /\ type_index(var) \notin Types
        /\ last_call.op \in {"store", "assign"} =>
              ~empty(var) /\ type_index(var) = last_call.type
        /\ empty(var) <=> type_index(var) \notin Types

\* C2 witness: a reset of a variant that held a value, after two stores.
C2_Witness ==
    /\ in_scope
    /\ last_call.op = "reset"
    /\ last_call.held
    /\ constructed = 2
    /\ empty(var)

\* C3: a get<Tk> that follows store( v ) or an assignment of v, with v of
\* type Tk, succeeds and returns v, whatever the variant held before.
C3_GetReturnsStored ==
    (result.kind # "none" /\ last_call.op \in {"store", "assign"}
        /\ result.type = last_call.type)
    => (result.kind = "ok" /\ result.val = last_call.val)

\* C3 witness: get<std::string> gives "10" after "10" was assigned over a
\* value the variant held.
C3_Witness ==
    /\ last_call.op = "assign"
    /\ last_call.held
    /\ result.kind = "ok"
    /\ result.type = "string"
    /\ result.val = StrV(<<49, 48>>)

\* C4: get<Tk> throws bad_variant_t_access exactly when the variant is empty
\* (nothing stored yet, or reset last) or the value stored last is of another
\* type, and succeeds exactly when the value stored last is of type Tk.
C4_GetFailsExactlyOnMismatch ==
    result.kind # "none" =>
        /\ result.kind \in {"ok", "bad_variant_t_access"}
        /\ result.kind = "bad_variant_t_access" <=>
              \/ last_call.op \in {"construct", "reset"}
              \/ last_call.type # result.type
        /\ result.kind = "ok" <=>
              (last_call.op \in {"store", "assign"} /\ last_call.type = result.type)

\* C4 witness: get<int> throws on a variant that holds a std::string.
C4_Witness ==
    /\ result.kind = "bad_variant_t_access"
    /\ result.type = "int"
    /\ last_call.op = "store"
    /\ last_call.type = "string"

\* ------------------------------------------- what the compare claims speak of
\* -1, 0 or 1 as n is negative, zero or positive.
Sign(n) == IF n < 0 THEN -1 ELSE IF n > 0 THEN 1 ELSE 0

\* s comes before t in the lexicographic order of strings.
LexLess(s, t) ==
    \E k \in 0..Len(s) :
        /\ k <= Len(t)
        /\ \A i \in 1..k : s[i] = t[i]
        /\ \/ k = Len(s) /\ k < Len(t)
           \/ k < Len(s) /\ k < Len(t) /\ s[k + 1] < t[k + 1]

\* The lexicographic comparison of s with t: -1, 0 or 1.
LexCompare(s, t) == IF s = t THEN 0 ELSE IF LexLess(s, t) THEN -1 ELSE 1

\* Payload a is less than payload b of the same type, by the type's own order.
NativeLess(a, b) ==
    CASE a.type = "int" -> a.int < b.int
      [] a.type = "string" -> LexLess(a.str, b.str)
      [] a.type = "int*" -> a.ptr < b.ptr

\* Variant v holds the payload val.
Holds(v, val) == get(v, val.type) = Ok(val)

\* The variants named x and y both hold a payload, of one type.
SameType(x, y) == ~empty(u[x]) /\ type_index(u[x]) = type_index(u[y])

\* The variants named x and y both hold a payload, of two types.
OtherType(x, y) ==
    ~empty(u[x]) /\ ~empty(u[y]) /\ type_index(u[x]) # type_index(u[y])

\* C5: compare returns an int for any two variants, empty ones included: it
\* never throws.
C5_CompareNeverThrows ==
    compared => \A p \in Names \X Names : cmp[p].kind = "ok"

\* C6: for all variants a and b, empty ones included, compare(a,b) is
\* -compare(b,a).
C6_CompareAntisymmetric ==
    compared =>
        \A x, y \in Names :
            /\ cmp[<<x, y>>].kind = "ok"
            /\ cmp[<<y, x>>].kind = "ok"
            /\ cmp[<<x, y>>].val = 0 - cmp[<<y, x>>].val

C8_CompareTransitive ==
    compared =>
        \A x, y, z \in Names :
            (~empty(u[x]) /\ ~empty(u[y]) /\ ~empty(u[z])) =>
                /\ (cmp[<<x, y>>].val <= 0 /\ cmp[<<y, z>>].val <= 0)
                      => cmp[<<x, z>>].val <= 0
                /\ (cmp[<<x, y>>].val = 0 /\ cmp[<<y, z>>].val = 0)
                      => cmp[<<x, z>>].val = 0

\* C8, amended: compare returns, and compare <= 0 and compare = 0 are
\* transitive, over non-empty variants a, b, c that all hold the same member
\* type or hold three different member types (so that the three comparisons
\* take the same branch).
C8_CompareTransitiveOnOneBranch ==
    compared =>
        \A x, y, z \in Names :
            (\/ SameType(x, y) /\ SameType(y, z)
             \/ OtherType(x, y) /\ OtherType(y, z) /\ OtherType(x, z)) =>
                /\ cmp[<<x, y>>].kind = "ok"
                /\ cmp[<<y, z>>].kind = "ok"
                /\ cmp[<<x, z>>].kind = "ok"
                /\ (cmp[<<x, y>>].val <= 0 /\ cmp[<<y, z>>].val <= 0)
                      => cmp[<<x, z>>].val <= 0
                /\ (cmp[<<x, y>>].val = 0 /\ cmp[<<y, z>>].val = 0)
                      => cmp[<<x, z>>].val = 0

\* C8 witness: three variants of three member types, a before b before c.
C8_Witness ==
    /\ compared
    /\ OtherType("a", "b") /\ OtherType("b", "c") /\ OtherType("a", "c")
    /\ cmp[<<"a", "b">>].val < 0
    /\ cmp[<<"b", "c">>].val < 0
    /\ cmp[<<"a", "c">>].val < 0

\* C9: between two variants that hold the same member type compare follows
\* the type's == and <: 0 for equal payloads, negative when the left payload
\* is less, positive otherwise; and comparing with the bare payload gives
\* what comparing with the variant that holds it gives.
C9_SameTypeCompare ==
    compared =>
        \A x, y \in Names :
            SameType(x, y) =>
                /\ cmp[<<x, y>>].kind = "ok"
                /\ cmp[<<x, y>>].val = 0 <=> u[x].m_buffer = u[y].m_buffer
                /\ cmp[<<x, y>>].val < 0 <=> NativeLess(u[x].m_buffer, u[y].m_buffer)
                /\ cmp[<<x, y>>].val > 0 <=> NativeLess(u[y].m_buffer, u[x].m_buffer)
                /\ bare[<<x, y>>] = cmp[<<x, y>>]

\* C9 witness: a and b hold 5 and c holds 6; a against b is 0, a against c
\* is negative, c against a is positive, also against the bare values.
C9_Witness ==
    /\ compared
    /\ Holds(u["a"], IntV(5)) /\ Holds(u["b"], IntV(5)) /\ Holds(u["c"], IntV(6))
    /\ cmp[<<"a", "b">>] = CmpOk(0)
    /\ cmp[<<"a", "c">>].val < 0 /\ bare[<<"a", "c">>].val < 0
    /\ cmp[<<"c", "a">>].val > 0 /\ bare[<<"c", "a">>].val > 0

\* C10: between two non-empty variants of different member types compare is
\* the lexicographic comparison of the two to_string results; the int 5 and
\* the string "5" compare equal.
C10_OtherTypeCompare ==
    compared =>
        \A x, y \in Names :
            OtherType(x, y) =>
                /\ cmp[<<x, y>>] = CmpOk(StrCompare(to_string(u[x]), to_string(u[y])))
                /\ Sign(cmp[<<x, y>>].val)
                     = LexCompare(to_string(u[x]), to_string(u[y]))
                /\ (Holds(u[x], IntV(5)) /\ Holds(u[y], StrV(<<53>>)))
                      => cmp[<<x, y>>].val = 0

\* C10 witness: a holds the int 5, b the string "5", and they compare equal;
\* c holds the string "10" and a compares greater than c.
C10_Witness ==
    /\ compared
    /\ Holds(u["a"], IntV(5)) /\ Holds(u["b"], StrV(<<53>>))
    /\ Holds(u["c"], StrV(<<49, 48>>))
    /\ cmp[<<"a", "b">>] = CmpOk(0)
    /\ cmp[<<"a", "c">>].val > 0

\* C11: after a variant is move-constructed or move-assigned from a variant
\* that held a value of type Tk, the destination holds that value with type
\* Tk and the source is empty.
C11_MoveEmptiesSource ==
    (own_call.op \in {"move_construct", "move_assign"} /\ ~empty(own_call.from))
    => /\ type_index(ov[own_call.dst]) = type_index(own_call.from)
       /\ get(ov[own_call.dst], type_index(own_call.from)).val = own_call.from.m_buffer
       /\ empty(ov[own_call.src])

\* C12: after a copy the two variants own independent payloads: no payload
\* is destructed more than once, and no two live variants hold, and so will
\* destruct, the same payload.
C12_ExclusiveOwnership ==
    /\ \A i \in DOMAIN dtors : dtors[i] <= 1
    /\ \A x \in OwnNames : \A y \in OwnNames :
          (x # y /\ life[x] = "alive" /\ life[y] = "alive"
                /\ ~empty(ov[x]) /\ ~empty(ov[y]))
          => obj[x] # obj[y]

\* C13: a get<Tk> that fails changes nothing: the variant, its stored type
\* and its payload are as before and the same get fails the same way again;
\* a get that succeeds, empty( ), type_index( ), to_string( ) and operator*
\* leave the variant unchanged too, and none of them constructs or destructs
\* a payload.
C13_QueriesChangeNothing ==
    [][(result'.kind # "none" \/ seen'.op # "none") =>
          /\ var' = var
          /\ constructed' = constructed
          /\ destructed' = destructed
          /\ result'.kind # "none" =>
                /\ get(var', result'.type).kind = result'.kind
                /\ get(var', result'.type).val = result'.val
          /\ seen'.op = "empty" => seen'.flag = empty(var')
          /\ seen'.op = "type_index" => seen'.idx = type_index(var')]_vars

\* C13 witness: get<std::string> has failed on a variant that holds an int,
\* after a reset and a second store.
C13_Witness ==
    /\ result.kind = "bad_variant_t_access"
    /\ result.type = "string"
    /\ type_index(var) = "int"
    /\ constructed = 2
    /\ destructed = 1

\* C14: reset( ) runs the payload's destructor exactly once when the variant
\* holds a value and none when it is empty, and leaves the variant empty; a
\* reset of the variant it leaves changes nothing.
C14_ResetIdempotent ==
    [][last_call'.op = "reset" =>
          /\ empty(var')
          /\ destructed' = destructed + (IF empty(var) THEN 0 ELSE 1)
          /\ constructed' = constructed
          /\ reset(var') = var'
          /\ destructs(var') = 0]_vars

\* C14 witness: a reset of an empty variant, after a reset that destructed
\* the one payload constructed.
C14_Witness ==
    /\ last_call.op = "reset"
    /\ ~last_call.held
    /\ constructed = 1
    /\ destructed = 1
    /\ empty(var)

\* C16: to_string( ) of an empty variant is "" and looks nothing up in the
\* registry; operator* gives what to_string( ) gives; to_string( ) of a
\* variant that holds the int 5 is "5".
C16_ToString ==
    /\ (seen.op = "to_string" /\ empty(var)) =>
          (seen.text = <<>> /\ seen.lookups = 0)
    /\ seen.op = "operator*" => seen.text = to_string(var)
    /\ (seen.op \in {"to_string", "operator*"} /\ Holds(var, IntV(5))) =>
          seen.text = <<53>>
    /\ operator_star(var) = to_string(var)

\* C16 witness: *var has given "5" for a variant that holds the int 5.
C16_Witness ==
    /\ seen.op = "operator*"
    /\ seen.text = <<53>>
    /\ Holds(var, IntV(5))

\* C16 witness: to_string( ) has given "" for a variant emptied by reset.
C16_WitnessEmpty ==
    /\ seen.op = "to_string"
    /\ seen.text = <<>>
    /\ last_call.op = "reset"
    /\ last_call.held

\* The number of the relations <, == and > that hold in r.
Trichotomy(r) ==
    (IF r.lt.val THEN 1 ELSE 0) + (IF r.eq.val THEN 1 ELSE 0) + (IF r.gt.val THEN 1 ELSE 0)

\* The relational operators recorded in r are those of the outcome c of
\* compare: each is its comparison of c with 0, and one of <, ==, > holds.
RelationalOf(r, c) ==
    c.kind = "ok" =>
        /\ \A f \in {"eq", "ne", "lt", "gt", "le", "ge"} : r[f].kind = "ok"
        /\ r.eq.val = (c.val = 0)
        /\ r.ne.val = (c.val # 0)
        /\ r.lt.val = (c.val < 0)
        /\ r.le.val = (c.val <= 0)
        /\ r.gt.val = (c.val > 0)
        /\ r.ge.val = (c.val >= 0)
        /\ Trichotomy(r) = 1

\* C15: for every a and b for which a.compare( b ) returns, a == b, a != b,
\* a < b, a <= b, a > b and a >= b are compare( ) == 0, != 0, < 0, <= 0,
\* > 0 and >= 0, so exactly one of a < b, a == b, a > b holds; the same for
\* a against a bare value.
C15_RelationalFromCompare ==
    compared =>
        \A p \in Names \X Names :
            /\ RelationalOf(rel[p], cmp[p])
            /\ RelationalOf(rel_bare[p], bare[p])

\* C15 witness: a < b and a <= b hold and a >= b does not, between an int
\* and a std::string, where compare returns -4 on the to_string branch.
C15_Witness ==
    /\ compared
    /\ cmp[<<"a", "b">>] = CmpOk(0 - 4)
    /\ rel[<<"a", "b">>].lt.val
    /\ rel[<<"a", "b">>].le.val
    /\ ~rel[<<"a", "b">>].ge.val
    /\ rel_bare[<<"a", "b">>].ne.val

\* C20: store( Tk ) into a variant whose active type differs destructs the
\* old payload first, then constructs the new one, and only then sets the
\* active type: the active type is never Tk while no Tk object is
\* constructed in the storage.
C20_TypeSetAfterConstruct ==
    type_index(sv) \in Types => sv.m_buffer.type = type_index(sv)

\* C17: a daw::not_null<int *> never holds a null pointer: constructing it
\* from null or assigning null to it throws NullPtrAccessException, and
\* after an assignment that failed it holds the pointer it held before.
C17_NeverNull ==
    /\ \A x \in NnNames : nn[x].born => nn[x].m_ptr # 0
    /\ (nn_out.op \in {"construct", "assign"} /\ nn_out.arg = 0) =>
          /\ nn_out.kind = "NullPtrAccessException"
          /\ nn[nn_out.x] = nn_out.before
    /\ (nn_out.op \in {"construct", "assign"} /\ nn_out.arg # 0) =>
          /\ nn_out.kind = "ok"
          /\ nn[nn_out.x] = [born |-> TRUE, m_ptr |-> nn_out.arg]
    /\ nn_out.op = "get" =>
          (nn_out.kind = "ok" /\ nn_out.val = nn[nn_out.x].m_ptr /\ nn_out.val # 0)

\* C17 witness: assigning null to t has thrown and t still holds the
\* pointer to the object at address 2.
C17_Witness ==
    /\ nn_out.op = "assign"
    /\ nn_out.x = "t"
    /\ nn_out.arg = 0
    /\ nn_out.kind = "NullPtrAccessException"
    /\ nn["t"] = [born |-> TRUE, m_ptr |-> 2]

\* C18: the expected_t that bench_test( title, f, args... ) and
\* expected_from_code( f, args... ) return is never empty: when f( args... )
\* returns, it has a value and the value is what f returned; when f throws,
\* it has an exception and holds the one thrown.
C18_ExpectedNeverEmpty ==
    ex.fn \in {"bench_test", "expected_from_code"} =>
        /\ ~expected_empty(ex.res)
        /\ Call(ex.f, ex.arg).kind = "ok" =>
              /\ has_value(ex.res)
              /\ ~has_exception(ex.res)
              /\ expected_get(ex.res) = [kind |-> "ok", val |-> Call(ex.f, ex.arg).val]
        /\ Call(ex.f, ex.arg).kind # "ok" =>
              /\ has_exception(ex.res)
              /\ ~has_value(ex.res)
              /\ ex.res.exception = Call(ex.f, ex.arg).kind

\* C18 witness: bench_test of a callable that threw std::out_of_range has
\* returned an expected_t holding that exception.
C18_Witness ==
    /\ ex.fn = "bench_test"
    /\ ex.f = "checked_sqr"
    /\ ex.arg < 0
    /\ has_exception(ex.res)
    /\ ex.res.exception = "std::out_of_range"

\* C18 witness: bench_test of the test's square on 10 has the value 100.
C18_WitnessValue ==
    /\ ex.fn = "bench_test"
    /\ ex.f = "sqr"
    /\ ex.arg = 10
    /\ expected_get(ex.res) = [kind |-> "ok", val |-> 100]

C21_OneLivePayload ==
    in_scope =>
        /\ empty(var) => (var.m_buffer = NoObject /\ constructed - destructed = 0)
        /\ ~empty(var) =>
              (var.m_buffer.type = type_index(var) /\ constructed - destructed = 1)
        /\ constructed - destructed <= 1

\* C22: once built, the registry holds exactly one entry for each member
\* type and nothing else, and no operation on any variant, empty or not,
\* adds, removes or changes an entry.
C22_RegistryNeverChanges ==
    builds > 0 =>
        /\ DOMAIN func_map = Types
        /\ func_map = get_variant_helpers

\* C23: under every interleaving of the threads' first uses the registry is
\* built exactly once and every lookup observes the complete registry, and
\* once it is built no lookup writes to it.
C23_BuiltOnceThenReadOnly ==
    /\ builds <= 1
    /\ \A t \in Threads : looked[t].kind # "none" => Types \subseteq looked[t].keys
    /\ writes = 0

\* The part of C23 about the construction alone: one build, and every
\* lookup sees an entry for every member type.
BuiltOnceAndComplete ==
    /\ builds <= 1
    /\ \A t \in Threads : looked[t].kind # "none" => Types \subseteq looked[t].keys
    /\ \A t \in Threads : tpc[t] = "building" => builder = t

\* C24: a lookup for a type index that has no entry in the registry, such as
\* the marker of an empty variant, fails at the lookup and yields no entry.
C24_MissingLookupFails ==
    \A t \in Threads :
        (looked[t].kind # "none" /\ ~looked[t].hit) => looked[t].kind # "ok"

C29_ExplicitResultNeverEmpty ==
    ex.fn = "expected_from_code<Result>" =>
        /\ ~expected_empty(ex.res)
        /\ Call(ex.f, ex.arg).kind = "ok" =>
              /\ has_value(ex.res)
              /\ expected_get(ex.res) = [kind |-> "ok", val |-> Call(ex.f, ex.arg).val]
        /\ Call(ex.f, ex.arg).kind # "ok" =>
              /\ has_exception(ex.res)
              /\ ex.res.exception = Call(ex.f, ex.arg).kind

\* C27: every int a daw::value_ptr allocated is deleted exactly once unless
\* release( ) handed it out: no object is deleted twice, and an object that
\* is neither deleted nor released is still held by a living value_ptr,
\* whose destructor will delete it.
C27_DeletedExactlyOnce ==
    \A a \in 1..Len(heap) :
        /\ heap[a].deletes <= 1
        /\ (heap[a].deletes = 0 /\ ~heap[a].released) =>
              \E x \in VpNames : vp[x].alive /\ vp[x].m_value = a

\* C28: the six comparison operators of daw::optional_heap<int> agree with
\* each other on every pair compared, empty operands included: exactly one
\* of a < b, a == b, a > b holds, a <= b is (a < b or a == b), a >= b is
\* (a > b or a == b), and a != b is !(a == b).
C28_OperatorsConsistent ==
    oh_cmp.lhs # "none" =>
        /\ (oh_cmp.lt /\ ~oh_cmp.eq /\ ~oh_cmp.gt)
              \/ (~oh_cmp.lt /\ oh_cmp.eq /\ ~oh_cmp.gt)
              \/ (~oh_cmp.lt /\ ~oh_cmp.eq /\ oh_cmp.gt)
        /\ oh_cmp.le <=> (oh_cmp.lt \/ oh_cmp.eq)
        /\ oh_cmp.ge <=> (oh_cmp.gt \/ oh_cmp.eq)
        /\ oh_cmp.ne <=> ~oh_cmp.eq

\* The strings C30 speaks of: one or more decimal digits, after a '-' if T
\* is signed; the integer such a string denotes; whether T can hold it.
IsDecimal(T, str) ==
    LET digits == IF str # <<>> /\ Head(str) = 45 /\ T = "int8_t" THEN Tail(str) ELSE str
    IN  /\ digits # <<>>
        /\ \A i \in 1..Len(digits) : 48 <= digits[i] /\ digits[i] <= 57

RECURSIVE DigitsValue(_)
DigitsValue(digits) ==
    IF digits = <<>> THEN 0
    ELSE 10 * DigitsValue(SubSeq(digits, 1, Len(digits) - 1)) + (digits[Len(digits)] - 48)

DecimalValue(str) ==
    IF Head(str) = 45 THEN 0 - DigitsValue(Tail(str)) ELSE DigitsValue(str)

Representable(T, n) ==
    IF T = "int8_t" THEN (0 - 128) <= n /\ n <= 127 ELSE 0 <= n /\ n <= 255

\* C30: for a string of decimal digits (with a leading '-' when T is signed)
\* parse_to_value returns the integer the string denotes when T can hold
\* it, and throws when T cannot; it never returns a wrapped value.
C30_ParseExactOrThrow ==
    (pr.T # "none" /\ IsDecimal(pr.T, pr.str)) =>
        /\ Representable(pr.T, DecimalValue(pr.str)) =>
              pr.out = ParseOk(DecimalValue(pr.str))
        /\ ~Representable(pr.T, DecimalValue(pr.str)) => pr.out.kind # "ok"

\* C25: the variant of src/daw_variant.h and the variant of
\* src/include/daw/daw_variant.h, given the same default construction and
\* the same calls of store, reset, empty, get<T> and to_string, return the
\* same at every step: the same emptiness, the same value or the same
\* bad_variant_t_access, the same string; and they stay in step, both empty
\* or both holding the same value.
C25_OldAndNewAgree ==
    /\ obs.new = obs.old
    /\ empty(nv) <=> old_empty(old)
    /\ \A T \in Types : get(nv, T) = old_get(old, T)
    /\ to_string(nv) = old_to_string(old)

\* C25 witness: after storing the string "10" over another value, get<int>
\* has thrown bad_variant_t_access on both variants.
C25_Witness ==
    /\ obs.op = "get"
    /\ obs.T = "int"
    /\ old.m_buffer = StrV(<<49, 48>>)
    /\ obs.old = Throw("bad_variant_t_access")
    /\ obs.new = Throw("bad_variant_t_access")

\* C25 witness: get<std::string> has returned "10" on both variants.
C25_WitnessValue ==
    /\ obs.op = "get"
    /\ obs.T = "string"
    /\ obs.old = Ok(StrV(<<49, 48>>))
    /\ obs.new = Ok(StrV(<<49, 48>>))

=============================================================================
